---- MODULE Spec2Model ----
(***************************************************************************)
(* Model of portfolio_mcp/tools.py, of portfolio_mcp/observability.py and  *)
(* of the tool wrappers of modal_app.py.                                   *)
(*                                                                         *)
(* Spec: the market-data tools get_stock_quote, get_option_expirations,    *)
(* get_option_chain, find_covered_call and find_cash_secured_put, as one   *)
(* call that runs against a market-data gateway (the Polygon REST client). *)
(*                                                                         *)
(* Analysis: analyze_portfolio on a parsed account export, rule by rule,   *)
(* followed by generate_research_prompts on an analysis.                   *)
(*                                                                         *)
(* Export: parse_portfolio_from_csv on the rows of an export and the       *)
(* summary analyze_portfolio makes of them, and the field normalizers on   *)
(* the texts of a cell.                                                    *)
(*                                                                         *)
(* Tracing: one tool call through the authorization and tracing layer:     *)
(* check_email_authorized and trace_tool in a wrapper of the Modal app, or *)
(* AuthAndTracingMiddleware.on_call_tool, then flush_traces.               *)
(*                                                                         *)
(* Units.  Prices, strikes, cash, premium and collateral are integers in   *)
(* cents; the raw prices of a stock snapshot are in mills (1/10 cent), so  *)
(* that round(price, 2) is a real rounding.  A delta is in 1/10000, the    *)
(* reported delta (round(delta, 3)) in 1/1000.  premium_pct is in 1/100 of *)
(* a percent, annualized_return in 1/10 of a percent.  An expiration date  *)
(* is the number of calendar days between today's date and its date.       *)
(* Arithmetic is exact decimal arithmetic.  An optional value (None, a     *)
(* missing attribute) is the empty sequence, a present value v is <<v>>.   *)
(* In the analysis a delta is in 1/100, a gain in 1/100 of a percent, and  *)
(* a timestamp is a number of half days (2 * day + part of the day).       *)
(***************************************************************************)
EXTENDS Integers, Sequences, FiniteSets, TLC

VARIABLES
    pc,           \* position of the call: idle, quote, exps, scan, chain, sort, done
    apiKey,       \* POLYGON_API_KEY is set in the environment
    market,       \* what the gateway can deliver for the symbol in this run
    req,          \* the operation called and its arguments
    log,          \* the requests sent to the gateway, in order
    current_price,\* quote["price"]
    expirations,  \* the list get_option_expirations returned
    tod,          \* 1 iff datetime.now() is later than midnight, else 0
    idx,          \* index in expirations of the expiration being looked at
    pos,          \* number of contracts delivered of the chain being fetched
    offered,      \* the contracts in order: <<expiration, contract>>
    candidates,   \* the candidates list (options_data for get_option_chain)
    failed,       \* chain fetches that raised: <<expiration, error, contracts delivered before>>
    result,       \* what the call returned or raised
    step,         \* position of the analysis: idle, itm, cash, delta, expiring,
                  \* losses, naked, summary, returned, context, sort, done
    portfolio,    \* (equities, options, cash) of parse_portfolio_from_csv
    now,          \* pd.Timestamp.now() at the call
    alerts,       \* the alerts list of analyze_portfolio
    holdings,     \* the holdings list of analyze_portfolio
    analysis,     \* the analysis_result handed to generate_research_prompts
    prompts,      \* the prompts list of generate_research_prompts
    stage,        \* position of the parse: idle, read, cash, frames, returned,
                  \* raised, cleaned
    sheet,        \* the rows of the CSV export, in order
    frames,       \* what parse_portfolio_from_csv returns: equities, options, cash
    summary,      \* the summary of analyze_portfolio
    cleaned,      \* a cell text and what the three normalizers make of it
    phase,        \* position of a tool call: idle, auth, plain, start, update,
                  \* run, finish, fallback, flush, done, raised
    call,         \* the tool call: how it enters, its token, the configuration,
                  \* what the tracing client and the tool function will do
    user_email,   \* the email the authorization returned
    span,         \* the span of the call: none, open, closed
    runs,         \* how each invocation of the tool function ended, in order
    flushed,      \* number of calls of flush_traces
    outcome       \* what the caller of the tool call receives

\* the state of an analysis
analyzer == <<step, portfolio, now, alerts, holdings, analysis, prompts>>

\* the state of a parse of an export
exporter == <<stage, sheet, frames, summary, cleaned>>

\* the state of a tool call through the authorization and tracing layer
tracer == <<phase, call, user_email, span, runs, flushed, outcome>>

vars == <<pc, apiKey, market, req, log, current_price, expirations, tod, idx,
          pos, offered, candidates, failed, result, analyzer, exporter, tracer>>

-----------------------------------------------------------------------------
(* Bounds of the model *)

\* contracts the gateway delivers in one call against a broad market
MaxContracts == 2

\* contracts the gateway delivers in one call against a deep market
DeepContracts == 11

-----------------------------------------------------------------------------
(* Program constants *)

\* candidates[:10]
TopN == 10

\* expirations[:20]
MaxListed == 20

\* shares // 100, strike * 100, last_price * 100
ContractSize == 100

-----------------------------------------------------------------------------
(* Values *)

Nil == <<>>

Some(v) == <<v>>

\* safe_float(val): None (and NaN) become the default 0.0
safe_float(val) == IF val = Nil THEN 0 ELSE val[1]

Abs(x) == IF x < 0 THEN 0 - x ELSE x

Min(a, b) == IF a < b THEN a ELSE b

\* round(n / d) for n >= 0, d > 0: to nearest, a tie to the even neighbour
RoundDiv(n, d) ==
    LET q == n \div d
        r == n % d
    IN  IF 2 * r < d THEN q
        ELSE IF 2 * r > d THEN q + 1
        ELSE IF q % 2 = 0 THEN q ELSE q + 1

\* s[:n]
Take(s, n) == SubSeq(s, 1, Min(n, Len(s)))

\* the elements of a sequence
Range(s) == {s[i] : i \in 1..Len(s)}

\* sorted(list(set)) of a set of integers
RECURSIVE SortedList(_)
SortedList(S) ==
    IF S = {} THEN <<>>
    ELSE LET m == CHOOSE x \in S : \A y \in S : x <= y
         IN  <<m>> \o SortedList(S \ {m})

-----------------------------------------------------------------------------
(* The per-contract code of the two ranking loops *)

\* abs(safe_float(greeks.delta if greeks else None))
DeltaOf(opt) == Abs(safe_float(opt.delta))

\* last trade price, falling back to the day's close when it is missing or 0
LastPriceOf(opt) ==
    LET last_price == safe_float(opt.trade)
    IN  IF last_price = 0 /\ opt.day THEN safe_float(opt.close) ELSE last_price

\* round(delta, 3)
RoundDelta(delta) == RoundDiv(delta, 10)

\* dte = (exp_date - today).days: exp_date is midnight of the expiration date,
\* today is datetime.now(), and timedelta.days is the floor of the difference
DaysTo(exp, t) == exp - t

\* if dte < min_dte or dte > max_dte: continue
DteOutOfRange(dte, r) == dte < r.min_dte \/ dte > r.max_dte

\* a variant of CallNotOTM that lets an at-the-money call through
CallNotOTM_Strict(strike, price) == strike < price

\* find_covered_call: if strike <= current_price: continue
CallNotOTM(strike, price) == strike <= price

\* find_cash_secured_put: if strike >= current_price: continue
PutNotOTM(strike, price) == strike >= price

\* find_cash_secured_put: if collateral > cash_available: continue
Unaffordable(collateral, cash) == collateral > cash

\* a variant of NoDelta that tests the sign instead of zero
NoDelta_Negative(delta) == delta < 0

\* if delta == 0: continue
NoDelta(delta) == delta = 0

\* if last_price <= 0: continue
NoPrice(last_price) == last_price <= 0

\* if premium_pct < min_premium_pct: continue, premium_pct = last_price / base * 100
PremiumTooLow(last_price, base, r) == last_price * 10000 < r.min_premium_pct * base

\* a variant of CallContracts that sells at least one contract
CallContracts_AtLeastOne(shares) ==
    IF shares \div ContractSize < 1 THEN 1 ELSE shares \div ContractSize

\* shares // 100
CallContracts(shares) == shares \div ContractSize

\* a variant of PutContracts that rounds the quotient up
PutContracts_RoundUp(cash, collateral) == (cash + collateral - 1) \div collateral

\* int(cash_available // collateral)
PutContracts(cash, collateral) == cash \div collateral

\* (premium_pct / dte) * 365 if dte > 0 else 0, rounded to one decimal
AnnualizedReturn(last_price, base, dte) ==
    IF dte > 0 THEN RoundDiv(last_price * 365000, base * dte) ELSE 0

\* what the body of the loop over the call chain does with one contract:
\* "skip" (a continue), "raise" (ZeroDivisionError) or "keep" (an append)
CallOutcome(opt, price, r) ==
    LET strike == safe_float(opt.strike)
    IN  IF ~opt.details THEN "skip"
        ELSE IF CallNotOTM(strike, price) THEN "skip"
        ELSE IF NoDelta(DeltaOf(opt)) THEN "skip"
        ELSE IF NoPrice(LastPriceOf(opt)) THEN "skip"
        ELSE IF price = 0 THEN "raise"
        ELSE IF PremiumTooLow(LastPriceOf(opt), price, r) THEN "skip"
        ELSE "keep"

\* the dict find_covered_call appends for a contract it keeps
CallCandidate(opt, exp, dte, price, r) ==
    LET strike == safe_float(opt.strike)
        last_price == LastPriceOf(opt)
        num_contracts == CallContracts(r.shares)
    IN  [expiration |-> exp,
         dte |-> dte,
         strike |-> strike,
         last |-> last_price,
         delta |-> RoundDelta(DeltaOf(opt)),
         contracts |-> num_contracts,
         collateral |-> 0,
         premium |-> last_price * ContractSize * num_contracts,
         premium_pct |-> RoundDiv(last_price * 10000, price),
         annualized_return |-> AnnualizedReturn(last_price, price, dte),
         delta_diff |-> Abs(DeltaOf(opt) - r.target_delta)]

\* what the body of the loop over the put chain does with one contract
PutOutcome(opt, price, r) ==
    LET strike == safe_float(opt.strike)
        collateral == strike * ContractSize
    IN  IF ~opt.details THEN "skip"
        ELSE IF PutNotOTM(strike, price) THEN "skip"
        ELSE IF Unaffordable(collateral, r.cash_available) THEN "skip"
        ELSE IF NoDelta(DeltaOf(opt)) THEN "skip"
        ELSE IF NoPrice(LastPriceOf(opt)) THEN "skip"
        ELSE IF collateral = 0 THEN "raise"
        ELSE IF PutContracts(r.cash_available, collateral) < 1 THEN "skip"
        ELSE IF PremiumTooLow(LastPriceOf(opt), strike, r) THEN "skip"
        ELSE "keep"

\* the dict find_cash_secured_put appends for a contract it keeps
PutCandidate(opt, exp, dte, price, r) ==
    LET strike == safe_float(opt.strike)
        collateral == strike * ContractSize
        last_price == LastPriceOf(opt)
        num_contracts == PutContracts(r.cash_available, collateral)
    IN  [expiration |-> exp,
         dte |-> dte,
         strike |-> strike,
         last |-> last_price,
         delta |-> RoundDelta(DeltaOf(opt)),
         contracts |-> num_contracts,
         collateral |-> collateral * num_contracts,
         premium |-> last_price * ContractSize * num_contracts,
         premium_pct |-> RoundDiv(last_price * 10000, strike),
         annualized_return |-> AnnualizedReturn(last_price, strike, dte),
         delta_diff |-> Abs(DeltaOf(opt) - r.target_delta)]

\* a variant of KeyLess that breaks a tie by ascending annualized_return
KeyLess_AscendingReturn(a, b) ==
    \/ a.delta_diff < b.delta_diff
    \/ a.delta_diff = b.delta_diff /\ a.annualized_return < b.annualized_return

\* the sort key (x['delta_diff'], -x['annualized_return']): a sorts before b
KeyLess(a, b) ==
    \/ a.delta_diff < b.delta_diff
    \/ a.delta_diff = b.delta_diff /\ a.annualized_return > b.annualized_return

\* c put into the sorted list s, behind the elements it does not sort before
RECURSIVE InsertByKey(_, _)
InsertByKey(s, c) ==
    IF s = <<>> THEN <<c>>
    ELSE IF KeyLess(c, Head(s)) THEN <<c>> \o s
    ELSE <<Head(s)>> \o InsertByKey(Tail(s), c)

\* candidates.sort(key=...): list.sort is stable
RECURSIVE SortCandidates(_)
SortCandidates(s) ==
    IF s = <<>> THEN <<>>
    ELSE InsertByKey(SortCandidates(SubSeq(s, 1, Len(s) - 1)), s[Len(s)])

\* candidates[:10] of the sorted list
Ranked(s) == Take(SortCandidates(s), TopN)

-----------------------------------------------------------------------------
(* get_stock_quote and get_option_chain *)

\* round(current_price, 2), the raw price in mills
RoundPrice(mills) == RoundDiv(mills, 10)

\* the price get_stock_quote takes from a snapshot: the day's close, else the
\* minute bar's close, else the last trade
SnapshotPrice(snapshot) ==
    LET close == IF safe_float(snapshot.day) # 0 THEN safe_float(snapshot.day)
                 ELSE safe_float(snapshot.min)
    IN  IF close = 0 /\ snapshot.last_trade # Nil
        THEN safe_float(snapshot.last_trade) ELSE close

\* a variant of StockQuote that quotes an empty snapshot at a price of 0
StockQuote_EmptyAsZero(out) ==
    IF out.status = "raise" THEN [kind |-> "error", error |-> "quote_failed"]
    ELSE IF out.status = "none" THEN [kind |-> "quote", price |-> 0]
    ELSE [kind |-> "quote", price |-> RoundPrice(SnapshotPrice(out))]

\* the dict get_stock_quote returns: an error when the fetch raised or the
\* snapshot is empty, else the quote of the snapshot
StockQuote(out) ==
    IF out.status = "raise" THEN [kind |-> "error", error |-> "quote_failed"]
    ELSE IF out.status = "none" THEN [kind |-> "error", error |-> "no_data"]
    ELSE [kind |-> "quote", price |-> RoundPrice(SnapshotPrice(out))]

\* the list get_option_expirations returns: [] when listing the contracts
\* raised, else the sorted distinct expiration dates
OptionExpirations(out) ==
    IF out.status = "raise" THEN <<>> ELSE SortedList(out.dates)

\* a variant of NoExpirations that lets an empty list through
NoExpirations_Never(exps) == FALSE

\* if not expirations: return {"error": "No options available"}
NoExpirations(exps) == exps = <<>>

\* get_option_chain: the near_the_money, min_delta, max_delta and min_volume filters
ChainFiltered(opt, price, r) ==
    LET strike == safe_float(opt.strike)
        delta == DeltaOf(opt)
    IN  \/ r.near_the_money # Nil
           /\ Abs(strike - price) * 40 > r.near_the_money[1] * price
        \/ r.min_delta # Nil /\ delta # 0 /\ delta < r.min_delta[1]
        \/ r.max_delta # Nil /\ delta # 0 /\ delta > r.max_delta[1]
        \/ r.min_volume # Nil /\ safe_float(opt.volume) < r.min_volume[1]

\* get_option_chain: the dict built for one contract
ChainOption(opt, price) ==
    LET strike == safe_float(opt.strike)
        delta == DeltaOf(opt)
        last_price == LastPriceOf(opt)
    IN  [strike |-> strike,
         type |-> opt.type,
         last |-> IF last_price # 0 THEN Some(last_price) ELSE Nil,
         volume |-> safe_float(opt.volume),
         itm |-> \/ opt.type = "call" /\ price > strike
                 \/ opt.type = "put" /\ price < strike,
         delta |-> IF delta # 0 THEN Some(RoundDelta(delta)) ELSE Nil]

\* o put into the list s sorted by strike, behind the elements of equal strike
RECURSIVE InsertByStrike(_, _)
InsertByStrike(s, o) ==
    IF s = <<>> THEN <<o>>
    ELSE IF o.strike < Head(s).strike THEN <<o>> \o s
    ELSE <<Head(s)>> \o InsertByStrike(Tail(s), o)

\* sorted([o for o in options_data if o["type"] == type], key=strike)
RECURSIVE SortedOfType(_, _)
SortedOfType(s, type) ==
    IF s = <<>> THEN <<>>
    ELSE LET rest == SortedOfType(SubSeq(s, 1, Len(s) - 1), type)
             o == s[Len(s)]
         IN  IF o.type = type THEN InsertByStrike(rest, o) ELSE rest

\* get_option_chain: what the except clause around the chain fetch returns
ChainError(err) ==
    IF err = "NOT_AUTHORIZED"
    THEN [kind |-> "error", error |-> "upgrade_hint"]
    ELSE [kind |-> "error", error |-> "chain_failed"]

\* get_option_chain: the result after the chain was read to its end
ChainResult(r, price, dte, options_data) ==
    [kind |-> "chain",
     price |-> price,
     expiration |-> r.expiration[1],
     dte |-> dte,
     calls |-> IF r.option_type \in {Nil, Some("call")}
               THEN Some(SortedOfType(options_data, "call")) ELSE Nil,
     puts |-> IF r.option_type \in {Nil, Some("put")}
              THEN Some(SortedOfType(options_data, "put")) ELSE Nil]

\* a variant of ScanAfterError that asks once more for a chain that failed
ScanAfterError_Retry(i, err) ==
    IF \E f \in failed : f[1] = expirations[i]
    THEN [pc |-> "scan", idx |-> i + 1, result |-> [kind |-> "none"]]
    ELSE [pc |-> "fetch", idx |-> i, result |-> [kind |-> "none"]]

\* a variant of ScanAfterError that leaves the loop over the expirations
ScanAfterError_Break(i, err) ==
    [pc |-> "scan", idx |-> Len(expirations) + 1, result |-> [kind |-> "none"]]

\* find_covered_call, find_cash_secured_put: the except clause around the
\* chain fetch of one expiration is a continue: the scan goes on with the
\* next expiration and the call returns nothing yet
ScanAfterError(i, err) ==
    [pc |-> "scan", idx |-> i + 1, result |-> [kind |-> "none"]]

\* find_covered_call, find_cash_secured_put: the candidates list after the
\* chain fetch of one expiration raised
KeptAfterError(cands, exp) == cands

\* find_covered_call, find_cash_secured_put: the dict returned after the scan
RankResult(price, cands) ==
    [kind |-> "ok", price |-> price, candidates |-> Ranked(cands)]

-----------------------------------------------------------------------------
(* The gateway: what it can answer *)

\* a contract of a chain snapshot
Contract(type, strike, delta, trade, close) ==
    [details |-> TRUE, type |-> type, strike |-> strike, delta |-> delta,
     trade |-> trade, day |-> close # Nil, close |-> close, volume |-> Some(7)]

\* calls around a spot of 10.00
CallFar == Contract("call", Some(1100), Some(2500), Some(10), Some(12))
CallByClose == Contract("call", Some(1100), Some(2500), Some(0), Some(20))
CallNear == Contract("call", Some(1050), Some(2104), Some(5), Nil)
CallAtSpot == Contract("call", Some(1000), Some(5000), Some(30), Nil)
CallNoGreeks == Contract("call", Some(1200), Nil, Some(10), Nil)
CallNoPrice == Contract("call", Some(1200), Some(1000), Nil, Nil)
CallCheap == Contract("call", Some(1200), Some(1000), Some(4), Nil)
CallNoDetails == [CallFar EXCEPT !.details = FALSE]

\* puts around a spot of 10.00
PutFar == Contract("put", Some(900), Some(-2500), Some(9), Some(8))
PutByClose == Contract("put", Some(900), Some(-2500), Nil, Some(18))
PutNear == Contract("put", Some(800), Some(-2104), Some(4), Nil)
PutAtSpot == Contract("put", Some(1000), Some(-5000), Some(30), Nil)
PutNoGreeks == Contract("put", Some(900), Nil, Some(10), Nil)
PutNoPrice == Contract("put", Some(900), Some(-1000), Some(0), Some(0))
PutCheap == Contract("put", Some(900), Some(-1000), Some(4), Nil)
PutNoStrike == Contract("put", Nil, Some(-1000), Some(4), Nil)
PutNoDetails == [PutFar EXCEPT !.details = FALSE]

BroadBook ==
    {CallFar, CallByClose, CallNear, CallAtSpot, CallNoGreeks, CallNoPrice,
     CallCheap, CallNoDetails,
     PutFar, PutByClose, PutNear, PutAtSpot, PutNoGreeks, PutNoPrice,
     PutCheap, PutNoStrike, PutNoDetails}

\* the errors a chain snapshot request can raise, at its first page or a later one
FetchErrors == {"NOT_AUTHORIZED", "TIMEOUT"}

\* a market: the contracts its chains are made of, how many of them the
\* gateway delivers in one call, the expiration dates it may list and the
\* errors its chain snapshots may raise
Markets ==
    {[book |-> BroadBook, budget |-> MaxContracts,
      listings |-> {{}, {2}, {1, 2}, {0, 1, 2, 3}}, errors |-> FetchErrors],
     [book |-> {CallFar}, budget |-> DeepContracts,
      listings |-> {{1, 2}}, errors |-> {}],
     [book |-> {PutFar, PutNear}, budget |-> DeepContracts,
      listings |-> {{2}}, errors |-> {}]}

\* the answers to get_snapshot_ticker: an exception, no snapshot, or a snapshot
\* with the day's close, the minute bar's close and the last trade, in mills
QuoteOutcomes ==
    {[status |-> "raise"],
     [status |-> "none"],
     [status |-> "ok", day |-> Some(10004), min |-> Nil, last_trade |-> Nil],
     [status |-> "ok", day |-> Nil, min |-> Some(9996), last_trade |-> Nil],
     [status |-> "ok", day |-> Some(0), min |-> Nil, last_trade |-> Some(10000)],
     [status |-> "ok", day |-> Nil, min |-> Nil, last_trade |-> Nil]}

\* the answers to list_options_contracts
ListingOutcomes(m) ==
    {[status |-> "raise"]} \cup {[status |-> "ok", dates |-> d] : d \in m.listings}

\* how a listing was answered: an exception, no contract at all, or some
ListingStatus(out) ==
    IF out.status = "ok" /\ out.dates = {} THEN "empty" ELSE out.status

\* the arguments of the calls
Requests ==
    {[op |-> "find_covered_call", shares |-> s, target_delta |-> 2000,
      min_dte |-> w[1], max_dte |-> w[2], min_premium_pct |-> 50] :
        s \in {50, 250}, w \in {<<0, 1>>}}
    \cup
    {[op |-> "find_cash_secured_put", cash_available |-> c, target_delta |-> 2000,
      min_dte |-> w[1], max_dte |-> w[2], min_premium_pct |-> 50] :
        c \in {80000, 185000}, w \in {<<0, 1>>}}
    \cup
    {[op |-> "get_option_chain", expiration |-> Nil, option_type |-> Nil,
      near_the_money |-> Nil, min_delta |-> Nil, max_delta |-> Nil,
      min_volume |-> Nil],
     [op |-> "get_option_chain", expiration |-> Some(2), option_type |-> Some("call"),
      near_the_money |-> Some(2), min_delta |-> Nil, max_delta |-> Nil,
      min_volume |-> Nil],
     [op |-> "get_option_chain", expiration |-> Some(2), option_type |-> Some("put"),
      near_the_money |-> Nil, min_delta |-> Some(2200), max_delta |-> Some(6000),
      min_volume |-> Some(5)]}

Ranking(r) == r.op \in {"find_covered_call", "find_cash_secured_put"}

\* the contract_type a call asks the gateway for
ContractType(r) ==
    IF r.op = "find_covered_call" THEN Some("call")
    ELSE IF r.op = "find_cash_secured_put" THEN Some("put")
    ELSE r.option_type

-----------------------------------------------------------------------------
(* The call, step by step *)

NoResult == [kind |-> "none"]

\* no export has been parsed yet
NoSnapshot == [equities |-> <<>>, options |-> <<>>, cash |-> 0]

\* nothing has been parsed, summed or normalized yet
NoFrames == [equities |-> <<>>, options |-> <<>>, cash |-> 0]

NoSummary == [cash |-> 0, equity_value |-> 0, option_value |-> 0, total_value |-> 0]

NoCell ==
    LET zero == [ok |-> TRUE, value |-> 0, error |-> "none"]
    IN  [text |-> <<>>, currency |-> zero, percent |-> zero, delta |-> zero]

\* no analysis has been handed to generate_research_prompts yet
NoAnalysis == [alerts |-> <<>>, holdings |-> <<>>]

\* no email: no token at all, a token without claims, a token without email
NoToken == [present |-> FALSE, claims |-> FALSE, email |-> <<>>]

\* no tool call has been made yet
NoCall ==
    [entry |-> "none", token |-> NoToken, allowed |-> {}, require_auth |-> TRUE,
     deps |-> TRUE, enabled |-> FALSE, faults |-> {}, func |-> <<>>]

\* the caller has received nothing yet
NoOutcome == [kind |-> "none", run |-> 0]

\* a request to the gateway and how it was answered ("ok", "none", "raise"),
\* as logged
Sent(name, status) == [name |-> name, exp |-> Nil, type |-> Nil, status |-> status]

\* a chain snapshot request for an expiration and a contract type, as logged;
\* how it ends is in failed
SentChain(exp, type) ==
    [name |-> "list_snapshot_options_chain", exp |-> Some(exp), type |-> type,
     status |-> "open"]

\* the expiration whose chain is being fetched
CurrentExp == IF Ranking(req) THEN expirations[idx] ELSE req.expiration[1]

Init ==
    /\ pc = "idle"
    /\ apiKey \in BOOLEAN
    /\ market \in Markets
    /\ req = [op |-> "none"]
    /\ log = <<>>
    /\ current_price = 0
    /\ expirations = <<>>
    /\ tod = 0
    /\ idx = 0
    /\ pos = 0
    /\ offered = <<>>
    /\ candidates = <<>>
    /\ failed = {}
    /\ result = NoResult
    /\ step = "idle"
    /\ portfolio = NoSnapshot
    /\ now = 0
    /\ alerts = <<>>
    /\ holdings = <<>>
    /\ analysis = NoAnalysis
    /\ prompts = <<>>
    /\ stage = "idle"
    /\ sheet = <<>>
    /\ frames = NoFrames
    /\ summary = NoSummary
    /\ cleaned = NoCell
    /\ phase = "idle"
    /\ call = NoCall
    /\ user_email = Nil
    /\ span = "none"
    /\ runs = <<>>
    /\ flushed = 0
    /\ outcome = NoOutcome

\* a tool is called; _get_polygon_client() raises ValueError without an API key
Invoke(r) ==
    /\ pc = "idle"
    /\ req' = r
    /\ IF apiKey
       THEN /\ pc' = "quote"
            /\ result' = NoResult
       ELSE /\ pc' = "done"
            /\ result' = [kind |-> "raise", error |-> "ValueError"]
    /\ UNCHANGED <<analyzer, exporter, tracer, apiKey, market, log, current_price, expirations, tod, idx,
                   pos, offered, candidates, failed>>

\* quote = get_stock_quote(symbol); if "error" in quote: return quote
GetStockQuote(out) ==
    /\ pc = "quote"
    /\ log' = log \o (IF out.status = "ok"
                      THEN <<Sent("get_snapshot_ticker", "ok"), Sent("get_ticker_details", "ok")>>
                      ELSE <<Sent("get_snapshot_ticker", out.status)>>)
    /\ LET quote == StockQuote(out)
       IN  IF quote.kind = "error"
           THEN /\ result' = quote
                /\ pc' = "done"
                /\ UNCHANGED current_price
           ELSE /\ current_price' = quote.price
                /\ pc' = "exps"
                /\ UNCHANGED result
    /\ UNCHANGED <<analyzer, exporter, tracer, apiKey, market, req, expirations, tod, idx, pos,
                   offered, candidates, failed>>

\* expirations = get_option_expirations(symbol); if not expirations: return
\* the error.  find_*: today = datetime.now() and the loop starts.
\* get_option_chain: without an expiration the dates are returned, with one
\* its dte is taken and its chain is requested.
GetOptionExpirations(out, t) ==
    /\ pc = "exps"
    /\ log' = Append(log, Sent("list_options_contracts", ListingStatus(out)))
    /\ expirations' = OptionExpirations(out)
    /\ IF NoExpirations(expirations')
       THEN /\ result' = [kind |-> "error", error |-> "no_options"]
            /\ pc' = "done"
            /\ UNCHANGED <<tod, idx>>
       ELSE IF Ranking(req)
       THEN /\ tod' = t
            /\ idx' = 1
            /\ pc' = "scan"
            /\ UNCHANGED result
       ELSE IF req.expiration = Nil
       THEN /\ result' = [kind |-> "listing", price |-> current_price,
                          expirations |-> Take(expirations', MaxListed)]
            /\ pc' = "done"
            /\ UNCHANGED <<tod, idx>>
       ELSE /\ tod' = t
            /\ pc' = "fetch"
            /\ UNCHANGED <<result, idx>>
    /\ UNCHANGED <<analyzer, exporter, tracer, apiKey, market, req, current_price, pos,
                   offered, candidates, failed>>

\* for exp in expirations: an expiration whose dte is out of range is passed over
ScanSkip ==
    /\ pc = "scan"
    /\ idx <= Len(expirations)
    /\ DteOutOfRange(DaysTo(expirations[idx], tod), req)
    /\ idx' = idx + 1
    /\ UNCHANGED <<analyzer, exporter, tracer, pc, apiKey, market, req, log, current_price, expirations, tod,
                   pos, offered, candidates, failed, result>>

\* for exp in expirations: the chain of an expiration in range is requested
ScanFetch ==
    /\ pc = "scan"
    /\ idx <= Len(expirations)
    /\ ~DteOutOfRange(DaysTo(expirations[idx], tod), req)
    /\ pc' = "fetch"
    /\ UNCHANGED <<analyzer, exporter, tracer, apiKey, market, req, log, current_price, expirations, tod, idx,
                   pos, offered, candidates, failed, result>>

\* client.list_snapshot_options_chain(symbol, params): the request goes out
ChainRequest ==
    /\ pc = "fetch"
    /\ log' = Append(log, SentChain(CurrentExp, ContractType(req)))
    /\ pc' = "chain"
    /\ pos' = 0
    /\ UNCHANGED <<analyzer, exporter, tracer, apiKey, market, req, current_price, expirations, tod, idx,
                   offered, candidates, failed, result>>

\* the contracts the gateway delivers for the contract_type asked for
Deliverable(m, r) ==
    {opt \in m.book : ContractType(r) \in {Nil, Some(opt.type)}}

\* what the loop body does with the contract the iterator yields
Outcome(opt, price, r) ==
    IF r.op = "find_covered_call" THEN CallOutcome(opt, price, r)
    ELSE IF r.op = "find_cash_secured_put" THEN PutOutcome(opt, price, r)
    ELSE IF ~opt.details \/ ChainFiltered(opt, price, r) THEN "skip"
    ELSE "keep"

\* what the loop body appends for a contract it keeps
Appended(opt, exp, dte, price, r) ==
    IF r.op = "find_covered_call" THEN CallCandidate(opt, exp, dte, price, r)
    ELSE IF r.op = "find_cash_secured_put" THEN PutCandidate(opt, exp, dte, price, r)
    ELSE ChainOption(opt, price)

\* the iterator yields a contract and the loop body runs on it; an exception
\* of the loop body is caught by the except clause of the chain fetch
ChainContract(opt) ==
    /\ pc = "chain"
    /\ Len(offered) < market.budget
    /\ opt \in Deliverable(market, req)
    /\ pos' = pos + 1
    /\ offered' = Append(offered, <<CurrentExp, opt>>)
    /\ LET out == Outcome(opt, current_price, req)
           dte == DaysTo(CurrentExp, tod)
       IN  IF out = "raise"
           THEN LET next == ScanAfterError(idx, "ZeroDivisionError")
                IN  /\ pc' = next.pc
                    /\ idx' = next.idx
                    /\ result' = next.result
                    /\ candidates' = KeptAfterError(candidates, CurrentExp)
                    /\ failed' = failed \cup {<<CurrentExp, "ZeroDivisionError", pos>>}
           ELSE /\ candidates' =
                     IF out = "keep"
                     THEN Append(candidates,
                                 Appended(opt, CurrentExp, dte, current_price, req))
                     ELSE candidates
                /\ UNCHANGED <<pc, idx, result, failed>>
    /\ UNCHANGED <<analyzer, exporter, tracer, apiKey, market, req, log, current_price, expirations, tod>>

\* the iterator is exhausted.  find_*: on to the next expiration.
\* get_option_chain: the chain is returned.
ChainEnd ==
    /\ pc = "chain"
    /\ IF Ranking(req)
       THEN /\ idx' = idx + 1
            /\ pc' = "scan"
            /\ UNCHANGED result
       ELSE /\ result' = ChainResult(req, current_price, DaysTo(CurrentExp, tod),
                                     candidates)
            /\ pc' = "done"
            /\ UNCHANGED idx
    /\ UNCHANGED <<analyzer, exporter, tracer, apiKey, market, req, log, current_price, expirations, tod,
                   pos, offered, candidates, failed>>

\* the gateway raises while the chain is fetched, at its first page or at a
\* later one.  find_*: except Exception: continue.  get_option_chain: an error
\* is returned.
ChainRaise(err) ==
    /\ pc = "chain"
    /\ err \in market.errors
    /\ failed' = failed \cup {<<CurrentExp, err, pos>>}
    /\ IF Ranking(req)
       THEN LET next == ScanAfterError(idx, err)
            IN  /\ pc' = next.pc
                /\ idx' = next.idx
                /\ result' = next.result
                /\ candidates' = KeptAfterError(candidates, CurrentExp)
       ELSE /\ result' = ChainError(err)
            /\ pc' = "done"
            /\ UNCHANGED <<idx, candidates>>
    /\ UNCHANGED <<analyzer, exporter, tracer, apiKey, market, req, log, current_price, expirations, tod,
                   pos, offered>>

\* the loop over the expirations is over: sort, and return the first ten
Finish ==
    /\ pc = "scan"
    /\ idx > Len(expirations)
    /\ result' = RankResult(current_price, candidates)
    /\ pc' = "done"
    /\ UNCHANGED <<analyzer, exporter, tracer, apiKey, market, req, log, current_price, expirations, tod, idx,
                   pos, offered, candidates, failed>>

Next ==
    \/ \E r \in Requests : Invoke(r)
    \/ \E out \in QuoteOutcomes : GetStockQuote(out)
    \/ \E out \in ListingOutcomes(market), t \in {0, 1} : GetOptionExpirations(out, t)
    \/ ScanSkip
    \/ ScanFetch
    \/ ChainRequest
    \/ \E opt \in market.book : ChainContract(opt)
    \/ ChainEnd
    \/ \E err \in FetchErrors : ChainRaise(err)
    \/ Finish

Spec == Init /\ [][Next]_vars

-----------------------------------------------------------------------------
(* analyze_portfolio: the rules, row by row *)

\* near-expiration window in days: dte > 7 is skipped
ExpiringDays == 7

\* delta > 0.5, in 1/100
HighDeltaLimit == 50

\* gain_pct < -0.10, in 1/100 of a percent
LossLimit == 0 - 1000

\* the market-context prompt lists symbols[:5]
MaxSymbols == 5

\* what a loop appended: the alerts of its rows one after the other, in row
\* order
RECURSIVE Flatten(_)
Flatten(ss) == IF ss = <<>> THEN <<>> ELSE Head(ss) \o Flatten(Tail(ss))

\* an alert text: its leading emoji, the symbol the text names after it (if
\* any), the wording of its template, and the row of the frame it is about
\* (0 for an alert about no row)
Alert(emoji, symbol, text, row) ==
    [emoji |-> emoji, symbol |-> symbol, text |-> text, row |-> row]

\* parts = sym.split(): a symbol is held as its whitespace-separated parts, the
\* date and the strike as numbers.  parts[3] of fewer than four parts raises
\* IndexError
IndexError(sym) == Len(sym) < 4

\* parse_option_symbol(sym): the first four parts of the symbol
parse_option_symbol(sym) ==
    [underlying |-> sym[1], exp |-> sym[2], strike |-> sym[3], opt_type |-> sym[4]]

\* int(opt['Qty (Quantity)']) >= 0: continue
IsShort(opt) == opt.Qty < 0

\* equities[equities['Symbol'] == underlying]: the rows of the underlying
EquityRows(equities, underlying) ==
    {i \in 1..Len(equities) : equities[i].Symbol = underlying}

\* len(eq) == 0
NotHeld(equities, underlying) == EquityRows(equities, underlying) = {}

\* clean_currency(eq.iloc[0]['Price']): the price of the first such row
SpotOf(equities, underlying) ==
    LET rows == EquityRows(equities, underlying)
    IN  equities[CHOOSE i \in rows : \A j \in rows : i <= j].Price

\* itm = (call and price > strike) or (put and price < strike)
InTheMoney_OrEqual(o, price) ==
    \/ o.opt_type = "C" /\ price >= o.strike
    \/ o.opt_type = "P" /\ price <= o.strike

InTheMoney(o, price) ==
    \/ o.opt_type = "C" /\ price > o.strike
    \/ o.opt_type = "P" /\ price < o.strike

\* rule 1, one row of the options frame
ITMAlert(p, i) ==
    LET opt == p.options[i]
        o == parse_option_symbol(opt.Symbol)
    IN  IF ~IsShort(opt) THEN <<>>
        ELSE IF NotHeld(p.equities, o.underlying) THEN <<>>
        ELSE IF InTheMoney(o, SpotOf(p.equities, o.underlying))
             THEN <<Alert("siren", Some(o.underlying), "is ITM", i)>>
             ELSE <<>>

ITMAlerts(p) == Flatten([i \in 1..Len(p.options) |-> ITMAlert(p, i)])

\* qty * strike * 100 of a short put, 0 of any other row
Exposure(opt) ==
    IF IsShort(opt) /\ parse_option_symbol(opt.Symbol).opt_type = "P"
    THEN Abs(opt.Qty) * parse_option_symbol(opt.Symbol).strike * ContractSize
    ELSE 0

\* total_put_exposure over the rows i..Len(options)
RECURSIVE TotalPutExposure(_, _)
TotalPutExposure(options, i) ==
    IF i > Len(options) THEN 0
    ELSE Exposure(options[i]) + TotalPutExposure(options, i + 1)

\* total_put_exposure > cash
CashShort_OrEqual(total, cash) == total >= cash

CashShort(total, cash) == total > cash

\* rule 2
CashAlerts(p) ==
    IF CashShort(TotalPutExposure(p.options, 1), p.cash)
    THEN <<Alert("money", Nil, "Short puts require cash", 0)>>
    ELSE <<>>

\* rule 3, one row of the options frame
HighDeltaAlert(p, i) ==
    LET opt == p.options[i]
        o == parse_option_symbol(opt.Symbol)
    IN  IF ~IsShort(opt) THEN <<>>
        ELSE IF opt.Delta > HighDeltaLimit
             THEN <<Alert("warning", Some(o.underlying),
                          "High delta - assignment risk", i)>>
             ELSE <<>>

HighDeltaAlerts(p) == Flatten([i \in 1..Len(p.options) |-> HighDeltaAlert(p, i)])


\* pd.to_datetime(o['exp']).normalize(): midnight of the expiration date
ToDatetime(exp) == 2 * exp

\* Timestamp.normalize(): midnight of the same day
Normalize(t) == t - (t % 2)

\* Timedelta.days: whole days, rounded down
Days(d) == d \div 2

\* dte = (exp_date - today).days with today = pd.Timestamp.now().normalize()
Dte_TimeOfDay(exp, t) == Days(ToDatetime(exp) - t)

Dte(exp, t) == Days(ToDatetime(exp) - Normalize(t))

\* price = clean_currency(eq.iloc[0]['Price']) if len(eq) > 0 else None
PriceOrNone(equities, underlying) ==
    IF NotHeld(equities, underlying) THEN Nil
    ELSE Some(SpotOf(equities, underlying))

\* "if ... price": None and 0.0 both count as false
Truthy(price) == price # Nil /\ price[1] # 0

\* otm = price < strike * 0.95 (call), price > strike * 1.05 (put or other)
DeepOTM_AnyOTM(o, price) ==
    IF o.opt_type = "C" THEN price < o.strike ELSE price > o.strike

DeepOTM(o, price) ==
    IF o.opt_type = "C"
    THEN price * 100 < o.strike * 95
    ELSE price * 100 > o.strike * 105

\* rule 4, one row of the options frame
ExpiringAlert(p, t, i) ==
    LET opt == p.options[i]
        o == parse_option_symbol(opt.Symbol)
        price == PriceOrNone(p.equities, o.underlying)
    IN  IF Dte(o.exp, t) > ExpiringDays THEN <<>>
        ELSE IF opt.Qty < 0 /\ Truthy(price)
             THEN IF DeepOTM(o, price[1])
                  THEN <<Alert("clock", Some(o.underlying),
                               "deep OTM, let expire", i)>>
                  ELSE <<Alert("clock", Some(o.underlying),
                               "consider rolling or closing", i)>>
             ELSE <<Alert("clock", Some(o.underlying), "expires", i)>>

ExpiringAlerts(p, t) ==
    Flatten([i \in 1..Len(p.options) |-> ExpiringAlert(p, t, i)])

\* rule 5, one row of the equities frame
LossAlert(p, i) ==
    IF p.equities[i].Gain < LossLimit
    THEN <<Alert("chart", Some(p.equities[i].Symbol), "Down - review position", i)>>
    ELSE <<>>

LossAlerts(p) == Flatten([i \in 1..Len(p.equities) |-> LossAlert(p, i)])

\* rule 6, one row of the options frame
NakedAlert_AnyShort(p, i) ==
    IF IsShort(p.options[i])
    THEN <<Alert("warning", Some(parse_option_symbol(p.options[i].Symbol).underlying),
                 "Naked short - no underlying held", i)>>
    ELSE <<>>

NakedAlert(p, i) ==
    LET opt == p.options[i]
        o == parse_option_symbol(opt.Symbol)
    IN  IF ~IsShort(opt) THEN <<>>
        ELSE IF NotHeld(p.equities, o.underlying)
             THEN <<Alert("warning", Some(o.underlying),
                          "Naked short - no underlying held", i)>>
             ELSE <<>>

NakedAlerts(p) == Flatten([i \in 1..Len(p.options) |-> NakedAlert(p, i)])

\* the alert that stands for "no rule fired"
NoAlerts == Alert("check", Nil, "No immediate alerts", 0)

\* if not alerts: alerts = [the sentinel]
WithSentinel_Always(found) == found \o <<NoAlerts>>

WithSentinel(found) == IF found = <<>> THEN <<NoAlerts>> ELSE found

\* the holdings list: the equities, then the options
EquityHolding(eq) == [symbol |-> Some(eq.Symbol), type |-> "equity", underlying |-> Nil]

OptionHolding(opt) ==
    [symbol |-> Some(opt.Symbol), type |-> "option",
     underlying |-> Some(parse_option_symbol(opt.Symbol).underlying),
     strike |-> parse_option_symbol(opt.Symbol).strike,
     opt_type |-> parse_option_symbol(opt.Symbol).opt_type,
     expiration |-> parse_option_symbol(opt.Symbol).exp]

Holdings(p) ==
    [i \in 1..Len(p.equities) |-> EquityHolding(p.equities[i])]
        \o [i \in 1..Len(p.options) |-> OptionHolding(p.options[i])]


-----------------------------------------------------------------------------
(* generate_research_prompts *)

\* the words the branches look for ('ITM', 'cash', 'High', the delta sign)
\* that the wording of an alert contains
WordsOf(alert) ==
    IF alert.text = "is ITM" THEN {"ITM"}
    ELSE IF alert.text = "Short puts require cash" THEN {"cash"}
    ELSE IF alert.text = "High delta - assignment risk" THEN {"High", "delta"}
    ELSE {}

\* re.search(r'^\W*(\w+):', alert): the word before the first colon, if the
\* alert starts with one after its emoji
ExtractSymbol(alert) == alert.symbol

Prompt(priority, category, symbol, context) ==
    [priority |-> priority, category |-> category, symbol |-> symbol,
     context |-> context, listed |-> {}]

\* the if / elif chain over one alert
PromptFor_AnyWarning(alert) ==
    LET symbol == ExtractSymbol(alert)
    IN  IF alert.emoji = "siren" /\ "ITM" \in WordsOf(alert)
        THEN <<Prompt(1, "assignment_risk", symbol, alert)>>
        ELSE IF alert.emoji = "money" /\ "cash" \in WordsOf(alert)
        THEN <<Prompt(2, "cash_management", Nil, alert)>>
        ELSE IF alert.emoji = "warning"
        THEN <<Prompt(3, "delta_risk", symbol, alert)>>
        ELSE IF alert.emoji = "clock"
        THEN <<Prompt(4, "expiration", symbol, alert)>>
        ELSE IF alert.emoji = "chart"
        THEN <<Prompt(5, "loss_review", symbol, alert)>>
        ELSE <<>>

PromptFor(alert) ==
    LET symbol == ExtractSymbol(alert)
    IN  IF alert.emoji = "siren" /\ "ITM" \in WordsOf(alert)
        THEN <<Prompt(1, "assignment_risk", symbol, alert)>>
        ELSE IF alert.emoji = "money" /\ "cash" \in WordsOf(alert)
        THEN <<Prompt(2, "cash_management", Nil, alert)>>
        ELSE IF alert.emoji = "warning" /\ {"High", "delta"} \subseteq WordsOf(alert)
        THEN <<Prompt(3, "delta_risk", symbol, alert)>>
        ELSE IF alert.emoji = "clock"
        THEN <<Prompt(4, "expiration", symbol, alert)>>
        ELSE IF alert.emoji = "chart"
        THEN <<Prompt(5, "loss_review", symbol, alert)>>
        ELSE <<>>

\* the loop over analysis_result['alerts']
AlertPrompts(a) == Flatten([i \in 1..Len(a.alerts) |-> PromptFor(a.alerts[i])])

\* the symbol of an equity, the underlying of an option
HoldingSymbol(h) == IF h.type = "equity" THEN h.symbol ELSE h.underlying

\* the set of symbols of the holdings that have one
HoldingSymbols(hs) ==
    {HoldingSymbol(hs[i])[1] :
        i \in {j \in 1..Len(hs) : (hs[j].symbol # Nil \/ hs[j].underlying # Nil)
                                  /\ HoldingSymbol(hs[j]) # Nil}}

\* symbols[:5] of list(set(...)): the order of a set is not determined, so
\* any MaxSymbols of the symbols (all of them if there are fewer)
Listings(symbols) ==
    {L \in SUBSET symbols : Cardinality(L) = Min(MaxSymbols, Cardinality(symbols))}

\* the market-context prompt that lists the symbols L
MarketContext(L) ==
    [priority |-> 10, category |-> "market_context", symbol |-> Nil,
     context |-> Alert("none", Nil, "General market context", 0), listed |-> L]

\* the market-context step: nothing is added without holdings or symbols
ContextPrompts_Always(hs, L) == <<MarketContext(L)>>

ContextPrompts(hs, L) ==
    IF hs = <<>> THEN <<>>
    ELSE IF HoldingSymbols(hs) = {} THEN <<>>
    ELSE <<MarketContext(L)>>

\* sorted(prompts, key=priority) is stable: a prompt goes after the prompts of
\* lower or equal priority that precede it
GoesBefore_Ties(a, b) == a.priority <= b.priority

GoesBefore(a, b) == a.priority < b.priority

RECURSIVE InsertByPriority(_, _)
InsertByPriority(s, c) ==
    IF s = <<>> THEN <<c>>
    ELSE IF GoesBefore(c, s[1]) THEN <<c>> \o s
    ELSE <<s[1]>> \o InsertByPriority(Tail(s), c)

RECURSIVE SortPrompts(_)
SortPrompts(s) ==
    IF s = <<>> THEN <<>>
    ELSE InsertByPriority(SortPrompts(SubSeq(s, 1, Len(s) - 1)), s[Len(s)])


-----------------------------------------------------------------------------
(* The account exports of the model *)

\* rows of the options frame in one export
MaxOptions == 2

\* a row of the equities frame: symbol, price, gain
Equity(symbol, price, gain) == [Symbol |-> symbol, Price |-> price, Gain |-> gain]

\* a row of the options frame: the parts of its symbol, quantity, delta
Option(underlying, exp, strike, opt_type, qty, delta) ==
    [Symbol |-> <<underlying, exp, strike, opt_type>>, Qty |-> qty, Delta |-> delta]

\* the equities of an export; NVDA, where held, trades at 100.00 or has no price
EquityFrames ==
    {<<>>,
     <<Equity("NVDA", 10000, 0 - 500)>>,
     <<Equity("NVDA", 10000, 0 - 1000), Equity("AAPL", 5000, 0 - 1500)>>,
     <<Equity("AAPL", 5000, 0 - 1001), Equity("NVDA", 0, 0)>>,
     <<Equity("NVDA", 10000, 0), Equity("AAPL", 5000, 0), Equity("MSFT", 40000, 0),
       Equity("AMD", 15000, 0), Equity("GOOG", 17000, 0), Equity("META", 60000, 0)>>}

ShortCallITM == Option("NVDA", 7, 9000, "C", 0 - 1, 80)
ShortCallATM == Option("NVDA", 8, 10000, "C", 0 - 1, 50)
ShortCallFarOTM == Option("NVDA", 7, 11000, "C", 0 - 1, 10)
ShortCallNearOTM == Option("NVDA", 3, 10500, "C", 0 - 1, 30)
ShortPutITM == Option("NVDA", 30, 11000, "P", 0 - 1, 70)
ShortPutFarOTM == Option("NVDA", 7, 9000, "P", 0 - 2, 20)
LongCall == Option("NVDA", 7, 9000, "C", 1, 80)
LongPut == Option("NVDA", 8, 11000, "P", 1, 60)
NakedPut == Option("TSLA", 8, 2000, "P", 0 - 1, 51)
\* rows whose symbol is not the four parts of an option: the type is missing,
\* only the underlying is there, a fifth part follows
ShortNoType == [Symbol |-> <<"NVDA", 7, 9000>>, Qty |-> 0 - 1, Delta |-> 80]
LongBare == [Symbol |-> <<"NVDA">>, Qty |-> 1, Delta |-> 0]
ShortFiveParts == [Symbol |-> <<"AAPL", 30, 6000, "C", "W">>, Qty |-> 0 - 1, Delta |-> 10]

OptionKinds ==
    {ShortCallITM, ShortCallATM, ShortCallFarOTM, ShortCallNearOTM, ShortPutITM,
     ShortPutFarOTM, LongCall, LongPut, NakedPut, ShortNoType, LongBare,
     ShortFiveParts}

\* the options frames: up to MaxOptions rows, in every order
OptionFrames == UNION {[1..n -> OptionKinds] : n \in 0..MaxOptions}

\* cash: none, the exposure of ShortPutFarOTM, that of ShortPutFarOTM and NakedPut
CashBalances == {0, 1800000, 2000000}

\* what parse_portfolio_from_csv can return
Snapshots ==
    [equities : EquityFrames, options : OptionFrames, cash : CashBalances]

\* today is day 0: midnight, or later in the day
Clock == {0, 1}

\* s[::-1]
Reverse(s) == [i \in 1..Len(s) |-> s[Len(s) + 1 - i]]

\* the analyses a caller hands to generate_research_prompts: the one
\* analyze_portfolio returned (server.py), or one with the alerts in
\* another order (the tool of modal_app.py takes any analysis)
Submitted(a) == {a, [a EXCEPT !.alerts = Reverse(a.alerts)]}

-----------------------------------------------------------------------------
(* The analysis, step by step *)

\* the state of a market-data call
ranker == <<pc, apiKey, market, req, log, current_price, expirations, tod, idx,
            pos, offered, candidates, failed, result>>

\* equities, options, cash = parse_portfolio_from_csv(csv_content); alerts = []
AnalyzePortfolio(p, t) ==
    /\ step = "idle"
    /\ portfolio' = p
    /\ now' = t
    /\ alerts' = <<>>
    /\ step' = "itm"
    /\ UNCHANGED <<ranker, exporter, tracer, holdings, analysis, prompts>>

\* the rows a loop hands to parse_option_symbol: the short ones where the
\* quantity is tested first, all of them otherwise
ShortRows(p) == {i \in 1..Len(p.options) : IsShort(p.options[i])}

AllRows(p) == 1..Len(p.options)

NoRows == {}

\* the exception leaves analyze_portfolio: nothing is returned
Raise_Swallowed ==
    /\ step' = "summary"
    /\ alerts' = alerts

Raise ==
    /\ step' = "raised"
    /\ alerts' = <<>>

\* one rule appends its alerts and hands over to the next, unless a symbol
\* it parses raises
Rule_Prepend(at, rows, found, next) ==
    /\ step = at
    /\ IF \E i \in rows : IndexError(portfolio.options[i].Symbol)
       THEN Raise
       ELSE alerts' = found \o alerts /\ step' = next
    /\ UNCHANGED <<ranker, exporter, tracer, portfolio, now, holdings, analysis, prompts>>

Rule(at, rows, found, next) ==
    /\ step = at
    /\ IF \E i \in rows : IndexError(portfolio.options[i].Symbol)
       THEN Raise
       ELSE alerts' = alerts \o found /\ step' = next
    /\ UNCHANGED <<ranker, exporter, tracer, portfolio, now, holdings, analysis, prompts>>

CheckITM == Rule("itm", ShortRows(portfolio), ITMAlerts(portfolio), "cash")

CheckCash == Rule("cash", ShortRows(portfolio), CashAlerts(portfolio), "delta")

CheckHighDelta ==
    Rule("delta", ShortRows(portfolio), HighDeltaAlerts(portfolio), "expiring")

CheckExpiring ==
    Rule("expiring", AllRows(portfolio), ExpiringAlerts(portfolio, now), "losses")

CheckLosses == Rule("losses", NoRows, LossAlerts(portfolio), "naked")

CheckNaked == Rule("naked", ShortRows(portfolio), NakedAlerts(portfolio), "summary")

\* the sentinel, the holdings, and the return of analyze_portfolio
Summarize ==
    /\ step = "summary"
    /\ alerts' = WithSentinel(alerts)
    /\ holdings' = Holdings(portfolio)
    /\ step' = "returned"
    /\ UNCHANGED <<ranker, exporter, tracer, portfolio, now, analysis, prompts>>

\* generate_research_prompts(analysis_result): the loop over the alerts
GenerateResearchPrompts(a) ==
    /\ step = "returned"
    /\ analysis' = a
    /\ prompts' = AlertPrompts(a)
    /\ step' = "context"
    /\ UNCHANGED <<ranker, exporter, tracer, portfolio, now, alerts, holdings>>

\* the market-context prompt, listing the symbols L
AddMarketContext(L) ==
    /\ step = "context"
    /\ prompts' = prompts \o ContextPrompts(analysis.holdings, L)
    /\ step' = "sort"
    /\ UNCHANGED <<ranker, exporter, tracer, portfolio, now, alerts, holdings, analysis>>

\* return sorted(prompts, key=priority)
ReturnPrompts ==
    /\ step = "sort"
    /\ prompts' = SortPrompts(prompts)
    /\ step' = "done"
    /\ UNCHANGED <<ranker, exporter, tracer, portfolio, now, alerts, holdings, analysis>>

\* the analysis asks nothing of the gateway: one environment stands for all
AnalysisInit == Init /\ ~apiKey /\ market.budget = MaxContracts

AnalysisNext ==
    \/ step = "idle" /\ \E p \in Snapshots, t \in Clock : AnalyzePortfolio(p, t)
    \/ CheckITM
    \/ CheckCash
    \/ CheckHighDelta
    \/ CheckExpiring
    \/ CheckLosses
    \/ CheckNaked
    \/ Summarize
    \/ \E a \in Submitted([alerts |-> alerts, holdings |-> holdings]) :
           GenerateResearchPrompts(a)
    \/ \E L \in Listings(HoldingSymbols(analysis.holdings)) : AddMarketContext(L)
    \/ ReturnPrompts

Analysis == AnalysisInit /\ [][AnalysisNext]_vars

-----------------------------------------------------------------------------
(* The field normalizers: clean_currency, clean_pct, clean_delta *)

\* A text is the sequence of its characters; a number is in 1/100.

Digits == <<"0", "1", "2", "3", "4", "5", "6", "7", "8", "9">>

IsDigit(c) == \E d \in 1..10 : Digits[d] = c

DigitValue(c) == (CHOOSE d \in 1..10 : Digits[d] = c) - 1

\* s[i:]
From(s, i) == SubSeq(s, i, Len(s))

\* s starts with pat
StartsWith(s, pat) == Len(pat) <= Len(s) /\ SubSeq(s, 1, Len(pat)) = pat

\* s.replace(pat, rep): every occurrence, left to right, without overlap
RECURSIVE Replace(_, _, _)
Replace(s, pat, rep) ==
    IF s = <<>> THEN <<>>
    ELSE IF StartsWith(s, pat) THEN rep \o Replace(From(s, Len(pat) + 1), pat, rep)
    ELSE <<s[1]>> \o Replace(Tail(s), pat, rep)

\* s.lstrip(), s.rstrip(), s.strip()
RECURSIVE LStrip(_)
LStrip(s) == IF s # <<>> /\ s[1] = " " THEN LStrip(Tail(s)) ELSE s

RECURSIVE RStrip(_)
RStrip(s) ==
    IF s # <<>> /\ s[Len(s)] = " " THEN RStrip(SubSeq(s, 1, Len(s) - 1)) ELSE s

Strip(s) == RStrip(LStrip(s))

\* the value of a sequence of digits
RECURSIVE Whole(_)
Whole(ds) ==
    IF ds = <<>> THEN 0
    ELSE 10 * Whole(SubSeq(ds, 1, Len(ds) - 1)) + DigitValue(ds[Len(ds)])

\* the value, in 1/100, of the digits after the decimal point
Hundredths(ds) ==
    IF ds = <<>> THEN 0
    ELSE IF Len(ds) = 1 THEN 10 * DigitValue(ds[1])
    ELSE 10 * DigitValue(ds[1]) + DigitValue(ds[2])

\* a returned value, and a raised exception
Value(v) == [ok |-> TRUE, value |-> v, error |-> "none"]

Raised(e) == [ok |-> FALSE, value |-> 0, error |-> e]

\* the digits and the decimal point of an unsigned decimal numeral u
Unsigned(u) ==
    LET dots == {i \in 1..Len(u) : u[i] = "."}
        dot == IF dots = {} THEN Len(u) + 1 ELSE CHOOSE i \in dots : TRUE
        int == SubSeq(u, 1, dot - 1)
        frac == From(u, dot + 1)
    IN  IF /\ Cardinality(dots) <= 1
           /\ \A i \in 1..Len(u) : IsDigit(u[i]) \/ u[i] = "."
           /\ Len(int) + Len(frac) >= 1
        THEN Value(100 * Whole(int) + Hundredths(frac))
        ELSE Raised("ValueError")

\* float(s): blanks around the numeral are allowed, a sign is, nothing else
Float(s) ==
    LET t == Strip(s)
    IN  IF t = <<>> THEN Raised("ValueError")
        ELSE IF t[1] = "-"
        THEN LET u == Unsigned(Tail(t))
             IN  IF u.ok THEN Value(0 - u.value) ELSE u
        ELSE IF t[1] = "+" THEN Unsigned(Tail(t))
        ELSE Unsigned(t)

\* the successive s.replace(a, b) of a normalizer
RECURSIVE ReplaceEach(_, _)
ReplaceEach(s, pairs) ==
    IF pairs = <<>> THEN s
    ELSE ReplaceEach(Replace(s, pairs[1][1], pairs[1][2]), Tail(pairs))

\* the escaping of the export that clean_currency removes, then '$' and ','
\* removed, '--' and 'N/A' made '0'
CurrencyReplacements ==
    << <<(<<"=", "\"", "\"">>), <<>>>>, <<(<<"\"", "\"">>), <<>>>>,
       <<(<<"=", "\"">>), <<>>>>, <<(<<"\"">>), <<>>>>,
       <<(<<"$">>), <<>>>>, <<(<<",">>), <<>>>>,
       <<(<<"-", "-">>), <<"0">>>>, <<(<<"N", "/", "A">>), <<"0">>>> >>

\* the replacements of clean_pct
PercentReplacements ==
    << <<(<<"=", "\"", "\"">>), <<>>>>, <<(<<"\"", "\"">>), <<>>>>,
       <<(<<"%">>), <<>>>>,
       <<(<<"-", "-">>), <<"0">>>>, <<(<<"N", "/", "A">>), <<"0">>>> >>

\* clean_currency(val); val is Nil for a missing cell (NaN)
clean_currency(val) ==
    IF val = Nil THEN Value(0)
    ELSE LET s == Strip(ReplaceEach(val[1], CurrencyReplacements))
         IN  IF s = <<>> THEN Value(0) ELSE Float(s)

\* clean_pct(val): the percentage as a number of 1/100 of a percent
clean_pct(val) ==
    IF val = Nil THEN Value(0)
    ELSE LET s == ReplaceEach(val[1], PercentReplacements)
         IN  IF s = <<>> THEN Value(0) ELSE Float(s)

\* clean_delta(val)
clean_delta(val) ==
    IF val = Nil THEN Value(0)
    ELSE IF Strip(val[1]) \in {<<"N", "/", "A">>, <<"-", "-">>, <<>>} THEN Value(0)
    ELSE LET f == Float(val[1])
         IN  IF f.ok THEN Value(Abs(f.value)) ELSE f

-----------------------------------------------------------------------------
(* parse_portfolio_from_csv and the summary of analyze_portfolio *)

\* rows of one export
MaxRows == 2

CashSymbol == "Cash & Cash Investments"

TotalSymbol == "Account Total"

\* a row of the export: its symbol, security type and market-value cell
Row(symbol, type, value) == [Symbol |-> symbol, Type |-> type, MktVal |-> value]

\* df[df['Symbol'] == 'Cash & Cash Investments']
CashRows_ByType(rows) == SelectSeq(rows, LAMBDA r : r.Type = "Cash and Money Market")

CashRows(rows) == SelectSeq(rows, LAMBDA r : r.Symbol = CashSymbol)

\* cash = clean_currency(cash_row.iloc[0][market value]) if len(cash_row) > 0
\* else 0.0
CashOf(rows) ==
    IF CashRows(rows) = <<>> THEN Value(0)
    ELSE clean_currency(CashRows(rows)[1].MktVal)

\* df[~df['Symbol'].isin(['Cash & Cash Investments', 'Account Total'])]
IsSummaryRow(r) == r.Symbol \in {CashSymbol, TotalSymbol}

\* df['Security Type'].isin(['Equity', 'ETFs & Closed End Funds'])
IsEquity_NotOption(r) == r.Type # "Option"

IsEquity(r) == r.Type \in {"Equity", "ETFs & Closed End Funds"}

\* df['Security Type'] == 'Option'
IsOption(r) == r.Type = "Option"

EquitiesOf(rows) == SelectSeq(rows, LAMBDA r : ~IsSummaryRow(r) /\ IsEquity(r))

OptionsOf(rows) == SelectSeq(rows, LAMBDA r : ~IsSummaryRow(r) /\ IsOption(r))

\* frame[market value].apply(clean_currency).sum(): the first cell that
\* cannot be read raises
RECURSIVE MarketValue(_)
MarketValue(rows) ==
    IF rows = <<>> THEN Value(0)
    ELSE LET v == clean_currency(rows[1].MktVal)
             rest == MarketValue(Tail(rows))
         IN  IF ~v.ok THEN v
             ELSE IF ~rest.ok THEN rest
             ELSE Value(v.value + rest.value)

\* the summary of analyze_portfolio
Total(cash, equity_value, option_value) == cash + equity_value + option_value

SummaryOf(f) ==
    LET equity_value == MarketValue(f.equities).value
        option_value == MarketValue(f.options).value
    IN  [cash |-> f.cash, equity_value |-> equity_value,
         option_value |-> option_value,
         total_value |-> Total(f.cash, equity_value, option_value)]

-----------------------------------------------------------------------------
(* The exports and the cell texts of the model *)

Dollars5000 == <<"$", "5", ",", "0", "0", "0", ".", "0", "0">>
Escaped1234 ==
    <<"=", "\"", "\"", "$", "1", ",", "2", "3", "4", ".", "5", "6", "\"", "\"">>
Debit500 == <<"-", "$", "5", "0", "0", ".", "0", "0">>
Dollars250 == <<"$", "2", "5", "0", ".", "5", "0">>
Minus120 == <<"-", "$", "1", "2", "0", ".", "0", "0">>
Dashes == <<"-", "-">>
NotAvailable == <<"N", "/", "A">>
Blank == <<" ">>
Empty == <<>>
Percent12 == <<"-", "1", "2", ".", "5", "%">>
Decimal45 == <<"-", "0", ".", "4", "5">>

\* the rows an export is made of
RowKinds ==
    {Row(CashSymbol, "Cash and Money Market", Some(Dollars5000)),
     Row(CashSymbol, "Cash and Money Market", Some(Escaped1234)),
     Row(CashSymbol, "Cash and Money Market", Some(Debit500)),
     Row(CashSymbol, "Cash and Money Market", Some(Dashes)),
     Row("SWVXX", "Cash and Money Market", Some(Dollars250)),
     Row(TotalSymbol, "--", Some(Dollars5000)),
     Row("NVDA", "Equity", Some(Escaped1234)),
     Row("AAPL", "Equity", Nil),
     Row("SPY", "ETFs & Closed End Funds", Some(Dollars250)),
     Row("NVDA 01/23/2026 200.00 C", "Option", Some(Minus120)),
     Row("912828XX", "Fixed Income", Some(Dollars5000))}

\* the exports: up to MaxRows rows, in every order
Sheets == UNION {[1..n -> RowKinds] : n \in 0..MaxRows}

\* the texts a cell is found to hold; Nil is a missing cell
CellTexts ==
    {Nil, Some(Empty), Some(Blank), Some(Dashes), Some(NotAvailable),
     Some(Escaped1234), Some(Dollars5000), Some(Debit500), Some(Percent12),
     Some(Decimal45)}

-----------------------------------------------------------------------------
(* The parse, step by step *)

\* pd.read_csv(io.StringIO(csv_content), skiprows=1)
ReadCsv(rows) ==
    /\ stage = "idle"
    /\ sheet' = rows
    /\ stage' = "read"
    /\ UNCHANGED <<ranker, analyzer, tracer, frames, summary, cleaned>>

\* extract cash before filtering
ExtractCash ==
    /\ stage = "read"
    /\ IF CashOf(sheet).ok
       THEN /\ frames' = [frames EXCEPT !.cash = CashOf(sheet).value]
            /\ stage' = "cash"
       ELSE /\ stage' = "raised"
            /\ UNCHANGED frames
    /\ UNCHANGED <<ranker, analyzer, tracer, sheet, summary, cleaned>>

\* filter out the summary rows, split by security type, return
FilterRows ==
    /\ stage = "cash"
    /\ frames' = [frames EXCEPT !.equities = EquitiesOf(sheet),
                                !.options = OptionsOf(sheet)]
    /\ stage' = "frames"
    /\ UNCHANGED <<ranker, analyzer, tracer, sheet, summary, cleaned>>

\* build the summary
BuildSummary ==
    /\ stage = "frames"
    /\ IF MarketValue(frames.equities).ok /\ MarketValue(frames.options).ok
       THEN /\ summary' = SummaryOf(frames)
            /\ stage' = "returned"
       ELSE /\ stage' = "raised"
            /\ UNCHANGED summary
    /\ UNCHANGED <<ranker, analyzer, tracer, sheet, frames, cleaned>>

\* the three normalizers on the text of one cell
CleanCell(text) ==
    /\ stage = "idle"
    /\ cleaned' = [text |-> text, currency |-> clean_currency(text),
                   percent |-> clean_pct(text), delta |-> clean_delta(text)]
    /\ stage' = "cleaned"
    /\ UNCHANGED <<ranker, analyzer, tracer, sheet, frames, summary>>

\* nothing of the gateway is used: one environment stands for all
ExportInit == Init /\ ~apiKey /\ market.budget = MaxContracts

ExportNext ==
    \/ stage = "idle" /\ \E rows \in Sheets : ReadCsv(rows)
    \/ ExtractCash
    \/ FilterRows
    \/ BuildSummary
    \/ \E text \in CellTexts : CleanCell(text)

Export == ExportInit /\ [][ExportNext]_vars

-----------------------------------------------------------------------------
(* Authorization: check_email_authorized, _get_user_email *)

\* str.lower(), on the letters the emails of the model are written with
LowerChar(c) ==
    CASE c = "A" -> "a"
      [] c = "M" -> "m"
      [] c = "X" -> "x"
      [] OTHER -> c

Lower(s) == [i \in 1..Len(s) |-> LowerChar(s[i])]

\* the authorization returned an email (or None), or raised
Granted(email) == [ok |-> TRUE, email |-> email, error |-> "none"]

Denied(error) == [ok |-> FALSE, email |-> Nil, error |-> error]

\* if not token or not token.claims
Anonymous(token) == ~token.present \/ ~token.claims

\* token.claims.get("email", "").lower()
EmailOf(token) == Lower(token.email)

\* modal_app.py: if user_email not in ALLOWED_EMAILS
Listed_Everyone(email, allowed) == TRUE

Listed(email, allowed) == email \in allowed

\* check_email_authorized() of the Modal app
check_email_authorized(token, allowed) ==
    IF Anonymous(token) THEN Denied("PermissionError")
    ELSE IF EmailOf(token) = <<>> THEN Denied("PermissionError")
    ELSE IF ~Listed(EmailOf(token), allowed) THEN Denied("PermissionError")
    ELSE Granted(Some(EmailOf(token)))

\* if self.require_auth: raise PermissionError(...); return None
Unauthenticated(require_auth) ==
    IF require_auth THEN Denied("PermissionError") ELSE Granted(Nil)

\* AuthAndTracingMiddleware._get_user_email(): deps is FALSE when the import
\* of fastmcp.server.dependencies raises ImportError
_get_user_email(token, allowed, require_auth, deps) ==
    IF ~deps THEN Unauthenticated(require_auth)
    ELSE IF Anonymous(token) THEN Unauthenticated(require_auth)
    ELSE IF EmailOf(token) = <<>> THEN Unauthenticated(require_auth)
    ELSE IF allowed # {} /\ ~Listed(EmailOf(token), allowed)
         THEN Denied("PermissionError")
    ELSE Granted(Some(EmailOf(token)))

-----------------------------------------------------------------------------
(* Tracing: trace_tool, _traced_execute, _traced_call, flush_traces *)

\* the calls of the tracing client that can raise: start_as_current_span,
\* span.update_trace, span.update(metadata), span.update(output) in finally
SpanOps == {"start", "update_trace", "update", "finish"}

\* what the caller receives: the result or the exception of invocation run
\* of the tool function, a PermissionError, an exception of the tracing client
Result(run) == [kind |-> "result", run |-> run]

FuncError(run) == [kind |-> "func_error", run |-> run]

PermissionError == [kind |-> "PermissionError", run |-> 0]

TraceError == [kind |-> "trace_error", run |-> 0]

\* the result or the exception of the invocation that just ended
Ended(ending, run) == IF ending = "returns" THEN Result(run) ELSE FuncError(run)

\* trace_tool.execute wraps _traced_execute in try/except Exception;
\* on_call_tool awaits _traced_call bare
ExceptException_Never(entry) == FALSE

ExceptException(entry) == entry = "wrapper"

\* if user_id: span.update_trace(user_id=user_id); span.update(metadata=...)
UpdateRaises(c, email) ==
    \/ email # Nil /\ "update_trace" \in c.faults
    \/ "update" \in c.faults

-----------------------------------------------------------------------------
(* What a tool call can be *)

Alice == <<"a", "@", "x">>
AliceUpper == <<"A", "@", "X">>
Mallory == <<"m", "@", "x">>

\* get_access_token(): none, one without claims, one without email, three
\* with an email
Tokens ==
    {NoToken,
     [present |-> TRUE, claims |-> FALSE, email |-> <<>>],
     [present |-> TRUE, claims |-> TRUE, email |-> <<>>],
     [present |-> TRUE, claims |-> TRUE, email |-> Alice],
     [present |-> TRUE, claims |-> TRUE, email |-> AliceUpper],
     [present |-> TRUE, claims |-> TRUE, email |-> Mallory]}

\* ALLOWED_EMAILS / allowed_emails: unset, or Alice alone
Allowlists == {{}, {Alice}}

\* the tool function at its first and at its second invocation
Funcs == [1..2 -> {"returns", "raises"}]

\* a call of a tool of the Modal app (the wrappers of modal_app.py), or a
\* call passing AuthAndTracingMiddleware.on_call_tool
ToolCalls ==
    [entry : {"wrapper"}, token : Tokens, allowed : Allowlists,
     require_auth : {TRUE}, deps : {TRUE}, enabled : BOOLEAN,
     faults : SUBSET SpanOps, func : Funcs]
    \cup
    [entry : {"middleware"}, token : Tokens, allowed : Allowlists,
     require_auth : BOOLEAN, deps : BOOLEAN, enabled : BOOLEAN,
     faults : SUBSET SpanOps, func : Funcs]

-----------------------------------------------------------------------------
(* The tool call, step by step *)

\* a tool is called
CallTool(c) ==
    /\ phase = "idle"
    /\ call' = c
    /\ phase' = "auth"
    /\ UNCHANGED <<ranker, analyzer, exporter, user_email, span, runs, flushed, outcome>>

\* user_email = check_email_authorized() / self._get_user_email();
\* if not _enabled or _langfuse is None: untraced
Authorize ==
    /\ phase = "auth"
    /\ LET a == IF call.entry = "wrapper"
                THEN check_email_authorized(call.token, call.allowed)
                ELSE _get_user_email(call.token, call.allowed, call.require_auth,
                                     call.deps)
       IN  IF a.ok
           THEN /\ user_email' = a.email
                /\ phase' = IF call.enabled THEN "start" ELSE "plain"
                /\ UNCHANGED outcome
           ELSE /\ outcome' = PermissionError
                /\ phase' = "raised"
                /\ UNCHANGED user_email
    /\ UNCHANGED <<ranker, analyzer, exporter, call, span, runs, flushed>>

\* return func() / result = await call_next(context), tracing disabled
RunUntraced ==
    /\ phase = "plain"
    /\ runs' = Append(runs, call.func[Len(runs) + 1])
    /\ outcome' = Ended(call.func[Len(runs) + 1], Len(runs) + 1)
    /\ phase' = IF call.func[Len(runs) + 1] = "returns" THEN "flush" ELSE "raised"
    /\ UNCHANGED <<ranker, analyzer, exporter, call, user_email, span, flushed>>

\* an exception leaves the span block: trace_tool ignores it and goes on to
\* return func(); on_call_tool lets it through
Leave(exc) ==
    IF ExceptException(call.entry)
    THEN phase' = "fallback" /\ outcome' = NoOutcome
    ELSE phase' = "raised" /\ outcome' = exc

\* with _langfuse.start_as_current_span(...) as span
StartSpan ==
    /\ phase = "start"
    /\ IF "start" \in call.faults
       THEN Leave(TraceError) /\ UNCHANGED span
       ELSE phase' = "update" /\ span' = "open" /\ UNCHANGED outcome
    /\ UNCHANGED <<ranker, analyzer, exporter, call, user_email, runs, flushed>>

\* span.update_trace(user_id=...); span.update(metadata=...)
UpdateSpan ==
    /\ phase = "update"
    /\ IF UpdateRaises(call, user_email)
       THEN Leave(TraceError) /\ span' = "closed"
       ELSE phase' = "run" /\ UNCHANGED <<span, outcome>>
    /\ UNCHANGED <<ranker, analyzer, exporter, call, user_email, runs, flushed>>

\* try: result = func() / await call_next(context) except: error = e
RunTraced ==
    /\ phase = "run"
    /\ runs' = Append(runs, call.func[Len(runs) + 1])
    /\ phase' = "finish"
    /\ UNCHANGED <<ranker, analyzer, exporter, call, user_email, span, flushed, outcome>>

\* finally: span.update(...); then the return, or the raise of the error
FinishSpan ==
    /\ phase = "finish"
    /\ span' = "closed"
    /\ IF "finish" \in call.faults
       THEN Leave(TraceError)
       ELSE IF runs[Len(runs)] = "returns"
            THEN phase' = "flush" /\ outcome' = Result(Len(runs))
            ELSE Leave(FuncError(Len(runs)))
    /\ UNCHANGED <<ranker, analyzer, exporter, call, user_email, runs, flushed>>

\* except Exception as e: print(...); return func()
Fallback ==
    /\ phase = "fallback"
    /\ runs' = Append(runs, call.func[Len(runs) + 1])
    /\ outcome' = Ended(call.func[Len(runs) + 1], Len(runs) + 1)
    /\ phase' = IF call.func[Len(runs) + 1] = "returns" THEN "flush" ELSE "raised"
    /\ UNCHANGED <<ranker, analyzer, exporter, call, user_email, span, flushed>>

\* flush_traces(); return result
FlushTraces ==
    /\ phase = "flush"
    /\ flushed' = flushed + 1
    /\ phase' = "done"
    /\ UNCHANGED <<ranker, analyzer, exporter, call, user_email, span, runs, outcome>>

\* the layer asks nothing of the gateway: one environment stands for all
TracingInit == Init /\ ~apiKey /\ market.budget = MaxContracts

TracingNext ==
    \/ phase = "idle" /\ \E c \in ToolCalls : CallTool(c)
    \/ Authorize
    \/ RunUntraced
    \/ StartSpan
    \/ UpdateSpan
    \/ RunTraced
    \/ FinishSpan
    \/ Fallback
    \/ FlushTraces

Tracing == TracingInit /\ [][TracingNext]_vars

-----------------------------------------------------------------------------
(* Properties *)

\* the call has returned the ranked candidates of operation op
Returned(op) == pc = "done" /\ req.op = op /\ result.kind = "ok"

\* the contracts delivered in this call
OfferedContracts == {offered[i][2] : i \in 1..Len(offered)}

\* C1: find_covered_call never returns a candidate whose strike is less than
\* or equal to the spot price used for the call; a contract with
\* strike == spot is excluded too.
C1_CallStrikeAboveSpot ==
    Returned("find_covered_call") =>
        \A c \in Range(result.candidates) :
            /\ c.strike > current_price
            /\ c.strike > result.price

\* C1 witness: candidates were returned from chains that also held a call
\* with strike == spot
C1_Witness ==
    /\ Returned("find_covered_call")
    /\ result.candidates # <<>>
    /\ \E opt \in OfferedContracts : safe_float(opt.strike) = current_price

\* C2: find_cash_secured_put never returns a candidate whose total collateral
\* (strike x 100 x contracts) exceeds cash_available, and every returned
\* candidate has its strike strictly below spot and contracts >= 1.
C2_PutCollateralWithinCash ==
    Returned("find_cash_secured_put") =>
        \A c \in Range(result.candidates) :
            /\ c.collateral = c.strike * 100 * c.contracts
            /\ c.collateral <= req.cash_available
            /\ c.strike < current_price
            /\ c.contracts >= 1

\* C2 witness: the cash covers two contracts of a returned put but not three,
\* and an at-the-money put was delivered too
C2_Witness ==
    /\ Returned("find_cash_secured_put")
    /\ \E c \in Range(result.candidates) :
           /\ c.contracts = 2
           /\ c.collateral < req.cash_available
           /\ c.collateral + c.strike * 100 > req.cash_available
    /\ \E opt \in OfferedContracts : safe_float(opt.strike) >= current_price

\* the call has returned the ranked candidates of a ranking operation
Ranked_Returned == pc = "done" /\ Ranking(req) /\ result.kind = "ok"

\* the qualifying candidates among the first n contracts delivered, in the
\* order of their delivery
RECURSIVE Qualifying(_)
Qualifying(n) ==
    IF n = 0 THEN <<>>
    ELSE LET exp == offered[n][1]
             opt == offered[n][2]
         IN  IF Outcome(opt, current_price, req) = "keep"
             THEN Append(Qualifying(n - 1),
                         Appended(opt, exp, DaysTo(exp, tod), current_price, req))
             ELSE Qualifying(n - 1)

\* how often c occurs in the sequence s
Count(s, c) == Cardinality({i \in 1..Len(s) : s[i] = c})

\* a ranks strictly before b: closer to the target delta, or as close and
\* with a higher annualized return
RanksBefore(a, b) ==
    \/ a.delta_diff < b.delta_diff
    \/ a.delta_diff = b.delta_diff /\ a.annualized_return > b.annualized_return

\* C3: the candidate list returned by find_covered_call and by
\* find_cash_secured_put is the first 10 (or all, if fewer) of the qualifying
\* candidates ordered ascending by |delta - target_delta|, candidates of equal
\* |delta - target_delta| ordered by descending annualized_return; no
\* candidate left out ranks strictly before a returned one.
C3_TopTenByDeltaThenReturn ==
    Ranked_Returned =>
        LET R == result.candidates
            Q == Qualifying(Len(offered))
        IN  /\ Len(R) = IF Len(Q) < 10 THEN Len(Q) ELSE 10
            /\ \A c \in Range(R) : Count(R, c) <= Count(Q, c)
            /\ \A i, j \in 1..Len(R) :
                   i < j =>
                       /\ R[i].delta_diff <= R[j].delta_diff
                       /\ R[i].delta_diff = R[j].delta_diff =>
                              R[i].annualized_return >= R[j].annualized_return
            /\ \A c \in Range(Q) :
                   Count(R, c) < Count(Q, c) =>
                       \A i \in 1..Len(R) : ~RanksBefore(c, R[i])

\* C3 witness: more than 10 candidates qualified, one of equal delta_diff and
\* lower annualized_return was left out, and the sort moved a candidate of a
\* later expiration in front of one of an earlier expiration
C3_Witness ==
    /\ Ranked_Returned
    /\ Len(Qualifying(Len(offered))) > 10
    /\ Len(result.candidates) = 10
    /\ \E i, j \in 1..Len(result.candidates) :
           /\ i < j
           /\ result.candidates[i].delta_diff = result.candidates[j].delta_diff
           /\ result.candidates[i].annualized_return
                  > result.candidates[j].annualized_return
           /\ result.candidates[i].expiration > result.candidates[j].expiration

\* the price a premium percent is taken against: spot for calls, the strike
\* for puts
PremiumBase(c) == IF req.op = "find_covered_call" THEN current_price ELSE c.strike

\* candidate c was made from a delivered contract with a non-zero delta
FromContractWithDelta(c) ==
    \E i \in 1..Len(offered) :
        LET opt == offered[i][2]
        IN  /\ offered[i][1] = c.expiration
            /\ opt.details
            /\ opt.strike = Some(c.strike)
            /\ opt.delta # Nil
            /\ opt.delta[1] # 0
            /\ c.delta_diff = Abs(Abs(opt.delta[1]) - req.target_delta)
            /\ c.last \in {safe_float(opt.trade), safe_float(opt.close)}

\* C4: every candidate returned by find_covered_call or find_cash_secured_put
\* has min_dte <= dte <= max_dte, a non-zero delta, a last price > 0, and a
\* premium percent (against spot for calls, against strike for puts) that is
\* not below min_premium_pct.
C4_CandidatesPassFilters ==
    Ranked_Returned =>
        \A c \in Range(result.candidates) :
            /\ req.min_dte <= c.dte
            /\ c.dte <= req.max_dte
            /\ c.dte = c.expiration - tod
            /\ FromContractWithDelta(c)
            /\ c.last > 0
            /\ c.last * 10000 >= req.min_premium_pct * PremiumBase(c)
            /\ c.premium_pct >= req.min_premium_pct

\* C4 witness: a returned candidate sits on the premium threshold and on
\* max_dte, from a call in which a contract without greeks was delivered too
C4_Witness ==
    /\ Ranked_Returned
    /\ \E c \in Range(result.candidates) :
           /\ c.last * 10000 = req.min_premium_pct * PremiumBase(c)
           /\ c.dte = req.max_dte
    /\ \E opt \in OfferedContracts : opt.details /\ opt.delta = Nil

\* the requests of the log with the given name
SentNamed(name) == {i \in 1..Len(log) : log[i].name = name}

\* the quote fetch of this call raised or returned no data
QuoteUnavailable ==
    \E i \in SentNamed("get_snapshot_ticker") : log[i].status \in {"raise", "none"}

\* C5: in find_covered_call and find_cash_secured_put, when the quote fetch
\* for the symbol fails or returns no data, the call ends with an
\* {error: message} result (not a raised exception), and no expiration
\* listing and no chain snapshot is requested from the gateway in that call.
C5_QuoteFailureEndsCall ==
    (Ranking(req) /\ QuoteUnavailable) =>
        /\ pc = "done"
        /\ result.kind = "error"
        /\ result.error \in {"quote_failed", "no_data"}
        /\ SentNamed("list_options_contracts") = {}
        /\ SentNamed("list_snapshot_options_chain") = {}

\* C5 witness: a ranking call whose stock snapshot came back empty
C5_Witness ==
    /\ Ranking(req)
    /\ pc = "done"
    /\ \E i \in SentNamed("get_snapshot_ticker") : log[i].status = "none"
    /\ result = [kind |-> "error", error |-> "no_data"]

\* the expirations whose chain fetch the gateway failed
FetchFailedExps == {f[1] : f \in {g \in failed : g[2] \in FetchErrors}}

\* the expirations whose chain was asked for
RequestedExps == {log[i].exp[1] : i \in SentNamed("list_snapshot_options_chain")}

\* the listed expirations whose dte is within [min_dte, max_dte]
InRangeExps ==
    {e \in Range(expirations) : req.min_dte <= e - tod /\ e - tod <= req.max_dte}

\* candidate c is in the returned list, or the list is full and c ranks
\* before none of its entries
Eligible(c) ==
    \/ c \in Range(result.candidates)
    \/ /\ Len(result.candidates) = 10
       /\ \A r \in Range(result.candidates) : ~RanksBefore(c, r)

\* C6: in find_covered_call and find_cash_secured_put, a failure of the chain
\* fetch for one expiration never aborts the scan: every later in-range
\* expiration is still fetched, the candidates of every non-failing
\* expiration are still eligible for the result, and the call returns a
\* candidate list rather than an error or a raised exception.
C6_FetchFailureDoesNotAbort ==
    (Ranking(req) /\ FetchFailedExps # {}) =>
        /\ result.kind \in {"none", "ok"}
        /\ pc = "done" =>
               /\ result.kind = "ok"
               /\ InRangeExps \subseteq RequestedExps
               /\ \A i \in 1..Len(offered) :
                      LET exp == offered[i][1]
                          opt == offered[i][2]
                      IN  (/\ exp \notin FetchFailedExps
                           /\ Outcome(opt, current_price, req) = "keep") =>
                              Eligible(Appended(opt, exp, DaysTo(exp, tod),
                                                current_price, req))

\* C6 witness: the chain fetch of one expiration failed and the result holds
\* a candidate of a later expiration
C6_Witness ==
    /\ Ranked_Returned
    /\ \E e \in FetchFailedExps :
           \E c \in Range(result.candidates) : c.expiration > e

\* C7: when the chain fetch for an expiration fails during a ranking call,
\* that expiration is skipped: the result contains no candidate with that
\* expiration, for every point at which the failure can occur (before the
\* first contract is delivered or between two contracts of a paginated chain).
C7_FailedExpirationSkipped ==
    Ranked_Returned =>
        \A c \in Range(result.candidates) : c.expiration \notin FetchFailedExps

\* the gateway rejected a chain snapshot request of this call for plan limits
Rejected == \E f \in failed : f[2] = "NOT_AUTHORIZED"

\* C8: whenever the gateway rejects a chain-snapshot request because of
\* plan/tier limits (NOT_AUTHORIZED), the operation that issued it
\* (get_option_chain, find_covered_call or find_cash_secured_put) returns an
\* error object carrying a descriptive upgrade hint.
C8_RejectionSurfacesHint ==
    (pc = "done" /\ Rejected) =>
        result = [kind |-> "error", error |-> "upgrade_hint"]

\* the expiration listing of this call raised or listed nothing
ListingEmpty ==
    \E i \in SentNamed("list_options_contracts") : log[i].status \in {"raise", "empty"}

\* C9: a ranking call returns an error object if and only if the quote is
\* unavailable or the symbol's expiration list is empty (including when
\* listing expirations fails); when expirations exist but none has dte in
\* [min_dte, max_dte], the call returns a non-error result whose candidate
\* list is empty.
C9_ErrorIffNoQuoteOrNoExpirations ==
    (pc = "done" /\ Ranking(req)) =>
        /\ result.kind = "error" <=> (QuoteUnavailable \/ ListingEmpty)
        /\ (result.kind # "raise" /\ ~QuoteUnavailable /\ ~ListingEmpty
            /\ InRangeExps = {}) =>
               /\ result.kind = "ok"
               /\ result.candidates = <<>>

\* C9 witness: expirations were listed, none of them in range, and the call
\* returned an empty candidate list
C9_Witness ==
    /\ Ranked_Returned
    /\ expirations # <<>>
    /\ InRangeExps = {}
    /\ result.candidates = <<>>

\* C10: no gateway request is retried: within one find_covered_call or
\* find_cash_secured_put call the stock snapshot is requested at most once,
\* the expiration list at most once, and the chain snapshot at most once per
\* in-range expiration, whether the request succeeds or fails; chain
\* snapshots are requested only after the quote and the expiration list were
\* obtained.
C10_NoRetries ==
    Ranking(req) =>
        /\ Cardinality(SentNamed("get_snapshot_ticker")) <= 1
        /\ Cardinality(SentNamed("list_options_contracts")) <= 1
        /\ \A i, j \in SentNamed("list_snapshot_options_chain") :
               i # j => log[i].exp # log[j].exp
        /\ RequestedExps \subseteq InRangeExps
        /\ \A i \in SentNamed("list_snapshot_options_chain") :
               /\ \E j \in 1..(i - 1) :
                      log[j].name = "get_snapshot_ticker" /\ log[j].status = "ok"
               /\ \E j \in 1..(i - 1) :
                      log[j].name = "list_options_contracts" /\ log[j].status = "ok"

\* C10 witness: a call in which one chain fetch failed and another did not,
\* each asked for once
C10_Witness ==
    /\ Ranked_Returned
    /\ FetchFailedExps # {}
    /\ Cardinality(SentNamed("list_snapshot_options_chain")) = 2
    /\ RequestedExps \ FetchFailedExps # {}

-----------------------------------------------------------------------------
(* Properties of the analysis *)

\* analyze_portfolio has returned
Analyzed == step \in {"returned", "context", "sort", "done"}

\* the rule an alert comes from, by its wording: 1 ITM short, 2 cash
\* shortfall, 3 high delta, 4 near expiration, 5 unrealized loss, 6 naked
\* short; 7 is the sentinel
RuleOf(alert) ==
    IF alert.text = "is ITM" THEN 1
    ELSE IF alert.text = "Short puts require cash" THEN 2
    ELSE IF alert.text = "High delta - assignment risk" THEN 3
    ELSE IF alert.text \in {"deep OTM, let expire", "consider rolling or closing",
                            "expires"} THEN 4
    ELSE IF alert.text = "Down - review position" THEN 5
    ELSE IF alert.text = "Naked short - no underlying held" THEN 6
    ELSE 7

\* the alerts of rule r in the list
AlertsOfRule(r) == {i \in 1..Len(alerts) : RuleOf(alerts[i]) = r}

\* C11: in the alert list the alerts are in rule order (ITM short, cash
\* shortfall, high delta, near expiration, unrealized loss, naked short),
\* whatever the order of the rows: no alert of a later rule precedes an alert
\* of an earlier rule.
C11_AlertsInRuleOrder ==
    \A i, j \in 1..Len(alerts) :
        i < j => RuleOf(alerts[i]) <= RuleOf(alerts[j])

\* an analysis has returned alerts of three rules for an export whose first
\* option row is a naked short and whose second is an ITM short
C11_Witness ==
    /\ Analyzed
    /\ Len(portfolio.options) = 2
    /\ AlertsOfRule(1) # {}
    /\ AlertsOfRule(4) # {}
    /\ AlertsOfRule(6) # {}
    /\ alerts[Len(alerts)].row = 1
    /\ alerts[1].row = 2

\* the parts of the symbol of option row i
OptionAt(i) == parse_option_symbol(portfolio.options[i].Symbol)

\* the alerts of rule r about row i
AlertsAbout(r, i) == {k \in AlertsOfRule(r) : alerts[k].row = i}

\* the underlying of option row i is held as an equity
UnderlyingHeld(i) ==
    \E e \in 1..Len(portfolio.equities) :
        portfolio.equities[e].Symbol = OptionAt(i).underlying

\* the price of the first equity row of the underlying of option row i
Spot(i) ==
    LET e == CHOOSE e \in 1..Len(portfolio.equities) :
                 /\ portfolio.equities[e].Symbol = OptionAt(i).underlying
                 /\ \A d \in 1..(e - 1) :
                        portfolio.equities[d].Symbol # OptionAt(i).underlying
    IN  portfolio.equities[e].Price

\* option row i is a short call below the spot or a short put above it
ShortInTheMoney(i) ==
    /\ portfolio.options[i].Qty < 0
    /\ UnderlyingHeld(i)
    /\ \/ OptionAt(i).opt_type = "C" /\ Spot(i) > OptionAt(i).strike
       \/ OptionAt(i).opt_type = "P" /\ Spot(i) < OptionAt(i).strike

\* C12: a short option whose underlying is held gets exactly one ITM alert
\* if it is a call with spot > strike or a put with spot < strike, and none
\* otherwise (spot = strike included); long options and options whose
\* underlying is not held get no ITM alert.
C12_OneITMAlertPerShortITM ==
    Analyzed =>
        \A i \in 1..Len(portfolio.options) :
            Cardinality(AlertsAbout(1, i)) = IF ShortInTheMoney(i) THEN 1 ELSE 0

\* an analysis of a short call at the money and a short put in the money,
\* both on a held underlying: the put has its alert, the call has none
C12_Witness ==
    /\ Analyzed
    /\ Len(portfolio.options) = 2
    /\ UnderlyingHeld(1)
    /\ portfolio.options[1].Qty < 0
    /\ OptionAt(1).opt_type = "C"
    /\ Spot(1) = OptionAt(1).strike
    /\ AlertsAbout(1, 1) = {}
    /\ OptionAt(2).opt_type = "P"
    /\ Cardinality(AlertsAbout(1, 2)) = 1

\* abs(quantity) x strike x 100 summed over the short puts among rows 1..n
RECURSIVE ShortPutSum(_)
ShortPutSum(n) ==
    IF n = 0 THEN 0
    ELSE ShortPutSum(n - 1)
         + (IF portfolio.options[n].Qty < 0 /\ OptionAt(n).opt_type = "P"
            THEN Abs(portfolio.options[n].Qty) * OptionAt(n).strike * 100
            ELSE 0)

\* C13: there is exactly one cash-shortfall alert when the sum of
\* abs(quantity) x strike x 100 over the short puts is greater than cash, and
\* none when it is equal to or below cash; long puts and calls do not count.
C13_OneShortfallAlertIffExposureAboveCash ==
    Analyzed =>
        Cardinality(AlertsOfRule(2)) =
            IF ShortPutSum(Len(portfolio.options)) > portfolio.cash THEN 1 ELSE 0

\* an analysis of a long put and a short put whose exposure is exactly the
\* cash: no shortfall alert
C13_Witness ==
    /\ Analyzed
    /\ Len(portfolio.options) = 2
    /\ portfolio.options[1].Qty > 0
    /\ OptionAt(1).opt_type = "P"
    /\ portfolio.options[2].Qty < 0
    /\ OptionAt(2).opt_type = "P"
    /\ ShortPutSum(2) = portfolio.cash
    /\ portfolio.cash > 0
    /\ AlertsOfRule(2) = {}

\* calendar days from the current date to the expiration date of option row i
DaysAhead(i) == OptionAt(i).exp - (now \div 2)

\* C14: every option holding, long or short, gets a near-expiration alert
\* when its expiration date is exactly 7 days after the current date, at any
\* time of the day, and none when it is 8 or more days after.
C14_NearExpirationAtSevenDays ==
    Analyzed =>
        \A i \in 1..Len(portfolio.options) :
            /\ DaysAhead(i) = 7 => Cardinality(AlertsAbout(4, i)) = 1
            /\ DaysAhead(i) >= 8 => AlertsAbout(4, i) = {}

\* an analysis made later than midnight of a long option that expires in 7
\* days, which has its alert, and of an option that expires in 8, which has
\* none
C14_Witness ==
    /\ Analyzed
    /\ now % 2 = 1
    /\ Len(portfolio.options) = 2
    /\ portfolio.options[1].Qty > 0
    /\ DaysAhead(1) = 7
    /\ Cardinality(AlertsAbout(4, 1)) = 1
    /\ DaysAhead(2) = 8
    /\ AlertsAbout(4, 2) = {}

\* option row i is more than 5% out of the money against the spot
MoreThanFivePercentOTM(i) ==
    IF OptionAt(i).opt_type = "C"
    THEN Spot(i) * 100 < 95 * OptionAt(i).strike
    ELSE Spot(i) * 100 > 105 * OptionAt(i).strike

\* the wording of the near-expiration alerts of option row i
WordingsAbout(i) == {alerts[k].text : k \in AlertsAbout(4, i)}

\* C15 (as stated): for a near-expiration option whose underlying is held the
\* alert is a let-expire recommendation exactly when the position is short
\* and more than 5% out of the money, and a roll/close consideration in every
\* other case, long positions included; the wording without a price
\* comparison is used only when the underlying is not held.
C15_RollOrCloseUnlessShortDeepOTM ==
    Analyzed =>
        \A i \in 1..Len(portfolio.options) :
            AlertsAbout(4, i) # {} =>
                IF ~UnderlyingHeld(i) THEN WordingsAbout(i) = {"expires"}
                ELSE IF portfolio.options[i].Qty < 0 /\ MoreThanFivePercentOTM(i)
                THEN WordingsAbout(i) = {"deep OTM, let expire"}
                ELSE WordingsAbout(i) = {"consider rolling or closing"}

\* option row i is short and its underlying is held at a price other than 0
ShortAndPriced(i) ==
    /\ portfolio.options[i].Qty < 0
    /\ UnderlyingHeld(i)
    /\ Spot(i) # 0

\* C15 (amended): a near-expiration alert is a let-expire recommendation
\* exactly when the position is short, its underlying is held at a non-zero
\* price and it is more than 5% out of the money; a roll/close consideration
\* exactly when it is short, held at a non-zero price and not more than 5%
\* out of the money; and the wording without a price comparison in every
\* other case: long positions, underlying not held, or held at price 0.
C15_RollOrCloseOnlyForPricedShorts ==
    Analyzed =>
        \A i \in 1..Len(portfolio.options) :
            AlertsAbout(4, i) # {} =>
                IF ~ShortAndPriced(i) THEN WordingsAbout(i) = {"expires"}
                ELSE IF MoreThanFivePercentOTM(i)
                THEN WordingsAbout(i) = {"deep OTM, let expire"}
                ELSE WordingsAbout(i) = {"consider rolling or closing"}

\* an analysis of a long call and a short call far out of the money, both
\* near expiration on a held underlying: the long call has the plain wording,
\* the short call the let-expire recommendation
C15_Witness ==
    /\ Analyzed
    /\ Len(portfolio.options) = 2
    /\ UnderlyingHeld(1)
    /\ Spot(1) # 0
    /\ portfolio.options[1].Qty > 0
    /\ WordingsAbout(1) = {"expires"}
    /\ portfolio.options[2].Qty < 0
    /\ WordingsAbout(2) = {"deep OTM, let expire"}

\* some rule has something to report about the export
SomeRuleFires ==
    \/ \E i \in 1..Len(portfolio.options) : ShortInTheMoney(i)
    \/ ShortPutSum(Len(portfolio.options)) > portfolio.cash
    \/ \E i \in 1..Len(portfolio.options) :
           portfolio.options[i].Qty < 0 /\ portfolio.options[i].Delta > 50
    \/ \E i \in 1..Len(portfolio.options) : DaysAhead(i) <= 7
    \/ \E e \in 1..Len(portfolio.equities) : portfolio.equities[e].Gain < 0 - 1000
    \/ \E i \in 1..Len(portfolio.options) :
           portfolio.options[i].Qty < 0 /\ ~UnderlyingHeld(i)

\* C16: the alert list analyze_portfolio returns is never empty: it is
\* exactly the "no alerts" sentinel when no rule fires, and does not contain
\* the sentinel when some rule fired.
C16_SentinelIffNoRuleFires ==
    Analyzed =>
        /\ alerts # <<>>
        /\ ~SomeRuleFires => alerts = <<NoAlerts>>
        /\ SomeRuleFires => \A k \in 1..Len(alerts) : alerts[k] # NoAlerts

\* an analysis of an export with equities and an option about which no rule
\* fires: the list is the sentinel alone
C16_Witness ==
    /\ Analyzed
    /\ portfolio.equities # <<>>
    /\ portfolio.options # <<>>
    /\ ~SomeRuleFires
    /\ alerts = <<NoAlerts>>

\* C17: every short option whose underlying is not held gets exactly one
\* naked-short alert, and no option gets both an ITM alert (rule 1) and a
\* naked-short alert (rule 6) in one analysis.
C17_NakedShortDistinctFromITM ==
    Analyzed =>
        \A i \in 1..Len(portfolio.options) :
            /\ portfolio.options[i].Qty < 0 /\ ~UnderlyingHeld(i)
                   => Cardinality(AlertsAbout(6, i)) = 1
            /\ AlertsAbout(1, i) = {} \/ AlertsAbout(6, i) = {}

\* an analysis of a short option in the money on a held underlying, which
\* has an ITM alert and no naked-short alert, and of a short option on an
\* underlying that is not held, which has one naked-short alert and no ITM
\* alert
C17_Witness ==
    /\ Analyzed
    /\ Len(portfolio.options) = 2
    /\ UnderlyingHeld(1)
    /\ Cardinality(AlertsAbout(1, 1)) = 1
    /\ AlertsAbout(6, 1) = {}
    /\ portfolio.options[2].Qty < 0
    /\ ~UnderlyingHeld(2)
    /\ Cardinality(AlertsAbout(6, 2)) = 1
    /\ AlertsAbout(1, 2) = {}

\* generate_research_prompts has returned
Prompted == step = "done"

\* the place of an alert in the alerts of the analysis handed in
PlaceOf(alert) == CHOOSE k \in 1..Len(analysis.alerts) : analysis.alerts[k] = alert

\* the prompts that come from an alert
FromAlert(k) == prompts[k].category # "market_context"

\* C18: the list generate_research_prompts returns is sorted ascending by
\* priority, and prompts of equal priority are in the order of their alerts.
C18_SortedByPriorityStable ==
    Prompted =>
        \A i, j \in 1..Len(prompts) :
            i < j =>
                /\ prompts[i].priority <= prompts[j].priority
                /\ prompts[i].priority = prompts[j].priority
                   /\ FromAlert(i) /\ FromAlert(j)
                       => PlaceOf(prompts[i].context) < PlaceOf(prompts[j].context)

\* prompts returned for an analysis whose alerts were not in priority order
\* and held two alerts of one priority
C18_Witness ==
    /\ Prompted
    /\ \E i, j \in 1..Len(analysis.alerts) :
           i < j /\ RuleOf(analysis.alerts[i]) = 4 /\ RuleOf(analysis.alerts[j]) = 1
    /\ \E i, j \in 1..Len(prompts) :
           i < j /\ prompts[i].priority = prompts[j].priority
    /\ prompts[1].priority = 1

\* the prompts made from the alert at place a of the analysis
PromptsOf(a) ==
    {k \in 1..Len(prompts) : FromAlert(k) /\ prompts[k].context = analysis.alerts[a]}

\* the category of the prompt for an alert of rules 1 to 5
CategoryOfRule(r) ==
    IF r = 1 THEN "assignment_risk"
    ELSE IF r = 2 THEN "cash_management"
    ELSE IF r = 3 THEN "delta_risk"
    ELSE IF r = 4 THEN "expiration"
    ELSE "loss_review"

\* C19: there is at most one prompt per alert: an ITM alert gives (priority
\* 1, assignment_risk), the cash shortfall (2, cash_management), a high-delta
\* alert (3, delta_risk), a near-expiration alert (4, expiration), an
\* unrealized-loss alert (5, loss_review); a naked-short alert and the
\* no-alerts sentinel give no prompt.
C19_OnePromptPerCategorisedAlert ==
    Prompted =>
        \A a \in 1..Len(analysis.alerts) :
            LET r == RuleOf(analysis.alerts[a])
            IN  IF r \in 1..5
                THEN /\ Cardinality(PromptsOf(a)) = 1
                     /\ \A k \in PromptsOf(a) :
                            /\ prompts[k].priority = r
                            /\ prompts[k].category = CategoryOfRule(r)
                ELSE PromptsOf(a) = {}

\* prompts returned for an analysis with a high-delta alert, which has its
\* prompt, and a naked-short alert, which has none
C19_Witness ==
    /\ Prompted
    /\ \E a, b \in 1..Len(analysis.alerts) :
           /\ RuleOf(analysis.alerts[a]) = 3
           /\ Cardinality(PromptsOf(a)) = 1
           /\ RuleOf(analysis.alerts[b]) = 6
           /\ PromptsOf(b) = {}

\* the market-context prompts in the list
ContextPromptsIn == {k \in 1..Len(prompts) : prompts[k].category = "market_context"}

\* the symbols of the equities and the underlyings of the options held
SymbolsHeld ==
    {portfolio.equities[e].Symbol : e \in 1..Len(portfolio.equities)}
        \cup {OptionAt(i).underlying : i \in 1..Len(portfolio.options)}

\* C20: generate_research_prompts adds exactly one market-context prompt
\* (priority 10, listing at most 5 distinct symbols) when the analysis has at
\* least one holding, and none when it has no holdings; for an analysis whose
\* only alert is the sentinel the result is that one prompt if there are
\* holdings and empty otherwise.
C20_OneMarketContextIffHoldings ==
    Prompted =>
        /\ Cardinality(ContextPromptsIn) = IF analysis.holdings # <<>> THEN 1 ELSE 0
        /\ \A k \in ContextPromptsIn :
               /\ prompts[k].priority = 10
               /\ Cardinality(prompts[k].listed) <= 5
               /\ prompts[k].listed \subseteq SymbolsHeld
        /\ analysis.alerts = <<NoAlerts>>
               => Len(prompts) = IF analysis.holdings # <<>> THEN 1 ELSE 0

\* prompts returned for an analysis with more than 5 symbols and no alert:
\* the market-context prompt alone, listing 5 of them
C20_Witness ==
    /\ Prompted
    /\ Cardinality(SymbolsHeld) > 5
    /\ analysis.alerts = <<NoAlerts>>
    /\ Len(prompts) = 1
    /\ prompts[1].category = "market_context"
    /\ Cardinality(prompts[1].listed) = 5

-----------------------------------------------------------------------------
(* Properties of the expiration window and of the contract count *)

\* a ranking call has gone through its expirations
Scanned == pc = "done" /\ Ranking(req) /\ result.kind = "ok"

\* C29: the days-to-expiration by which find_covered_call and
\* find_cash_secured_put select expirations is the whole-day difference
\* between the expiration date and the current date, at any time of the
\* day: an expiration exactly min_dte calendar days ahead is scanned, one
\* exactly max_dte + 1 calendar days ahead is not.
C29_WindowInCalendarDays ==
    Scanned =>
        \A e \in Range(expirations) :
            /\ e = req.min_dte => e \in RequestedExps
            /\ e = req.max_dte + 1 => e \notin RequestedExps

\* C30: find_covered_call computes contracts as floor(shares / 100) and does
\* not filter on it: for shares < 100 its candidates have contracts = 0 and
\* premium = 0; find_cash_secured_put never returns a candidate with
\* contracts < 1.
C30_CallContractsFloorUnfiltered ==
    /\ Returned("find_covered_call") =>
           \A c \in Range(result.candidates) :
               /\ c.contracts * 100 <= req.shares
               /\ req.shares < (c.contracts + 1) * 100
               /\ c.premium = c.last * 100 * c.contracts
               /\ req.shares < 100 => c.contracts = 0 /\ c.premium = 0
    /\ Returned("find_cash_secured_put") =>
           \A c \in Range(result.candidates) : c.contracts >= 1

\* find_covered_call has returned candidates for 50 shares
C30_Witness ==
    /\ Returned("find_covered_call")
    /\ req.shares < 100
    /\ result.candidates # <<>>
    /\ \A c \in Range(result.candidates) : c.contracts = 0 /\ c.last > 0

-----------------------------------------------------------------------------
(* Properties of the parse *)

\* analyze_portfolio has returned its summary
Summed == stage = "returned"

\* the market value of row n of the export if its symbol is none of the
\* summary symbols and its security type is one of types, else 0
ValueIfOfType(n, types) ==
    IF sheet[n].Symbol # CashSymbol /\ sheet[n].Symbol # TotalSymbol
       /\ sheet[n].Type \in types
    THEN clean_currency(sheet[n].MktVal).value
    ELSE 0

\* the sum of these values over the rows 1..n
RECURSIVE ValueOfType(_, _)
ValueOfType(n, types) ==
    IF n = 0 THEN 0 ELSE ValueOfType(n - 1, types) + ValueIfOfType(n, types)

\* C21: the summary satisfies total_value = cash + equity_value +
\* option_value, where equity_value and option_value are the sums of the
\* market values of exactly the rows classified as equities and as options;
\* summary rows and rows of other security types count in neither.
C21_TotalIsCashPlusEquitiesPlusOptions ==
    Summed =>
        /\ summary.total_value
               = summary.cash + summary.equity_value + summary.option_value
        /\ summary.cash = frames.cash
        /\ summary.equity_value
               = ValueOfType(Len(sheet), {"Equity", "ETFs & Closed End Funds"})
        /\ summary.option_value = ValueOfType(Len(sheet), {"Option"})

\* a summary of an export with a cash row and a row of another security
\* type, both with a market value: the cash is in the total, the other row
\* is not
C21_Witness ==
    /\ Summed
    /\ Len(sheet) = 2
    /\ sheet[1].Type = "Fixed Income"
    /\ clean_currency(sheet[1].MktVal).value > 0
    /\ sheet[2].Symbol = CashSymbol
    /\ summary.cash > 0
    /\ summary.total_value = summary.cash

\* parse_portfolio_from_csv has returned a snapshot
Parsed == stage \in {"frames", "returned"}

\* the rows of the export with the exact cash symbol
CashRowsAt == {n \in 1..Len(sheet) : sheet[n].Symbol = "Cash & Cash Investments"}

\* the normalized market value of the first of them
FirstCashValue ==
    clean_currency(sheet[CHOOSE n \in CashRowsAt : \A m \in CashRowsAt : n <= m].MktVal).value

\* C22 (as stated): the cash balance of every snapshot is >= 0: it is 0 when
\* no row has the exact symbol "Cash & Cash Investments", and otherwise the
\* normalized market value of that row, for every market-value text.
C22_CashNeverNegative ==
    Parsed =>
        /\ frames.cash >= 0
        /\ frames.cash = IF CashRowsAt = {} THEN 0 ELSE FirstCashValue

\* C22 (amended): the cash balance of every snapshot is 0 when no row has the
\* exact symbol "Cash & Cash Investments", and otherwise the normalized
\* market value of the first such row, which is negative for a negative
\* amount.
C22_CashIsFirstCashRowValue ==
    Parsed => frames.cash = IF CashRowsAt = {} THEN 0 ELSE FirstCashValue

\* a snapshot of an export whose cash row carries a negative amount
C22_Witness ==
    /\ Parsed
    /\ CashRowsAt # {}
    /\ frames.cash < 0

\* the three normalizers have been applied to the text of a cell
Cleaned == stage = "cleaned"

\* a missing value: an absent cell, an empty or blank text, "--", "N/A"
MissingTexts ==
    {<<>>, <<(<<>>)>>, <<(<<" ">>)>>, <<(<<"-", "-">>)>>, <<(<<"N", "/", "A">>)>>}

\* a normalizer returned 0
Zero(cell) == cell.ok /\ cell.value = 0

\* C24: the field normalizers map a missing value to zero without raising:
\* each of the three returns 0 for an absent value, an empty or blank text,
\* "--" and "N/A"; and the currency normalizer returns 1234.56 for
\* =""$1,234.56"".
C24_MissingValuesBecomeZero ==
    Cleaned =>
        /\ cleaned.text \in MissingTexts
               => Zero(cleaned.currency) /\ Zero(cleaned.percent) /\ Zero(cleaned.delta)
        /\ cleaned.text
               = <<(<<"=", "\"", "\"", "$", "1", ",", "2", "3", "4", ".", "5", "6", "\"", "\"">>)>>
               => cleaned.currency.ok /\ cleaned.currency.value = 123456


-----------------------------------------------------------------------------
(* Properties of the option-symbol parse *)

\* the rows of the submitted options whose symbol has fewer than four parts
Malformed ==
    {i \in 1..Len(portfolio.options) : IndexError(portfolio.options[i].Symbol)}

\* the holding built from option row i
HoldingOf(i) == holdings[Len(portfolio.equities) + i]

\* C23: parse_option_symbol returns the four parts of a symbol as underlying,
\* expiration, numeric strike and option type; a symbol of fewer than four
\* parts fails, and the failure ends the analyze_portfolio call: such a
\* portfolio never gets past the rule that parses the row (the first rule for
\* a short row, the expiration rule for a long one), and the call ends raised
\* with no alerts and no holdings.
C23_ParseFailureEndsTheAnalysis ==
    /\ Analyzed =>
           /\ Malformed = {}
           /\ \A i \in 1..Len(portfolio.options) :
                  LET sym == portfolio.options[i].Symbol IN
                      /\ HoldingOf(i).underlying = Some(sym[1])
                      /\ HoldingOf(i).expiration = sym[2]
                      /\ HoldingOf(i).strike = sym[3]
                      /\ HoldingOf(i).opt_type = sym[4]
    /\ Malformed # {} => step \in {"itm", "cash", "delta", "expiring", "raised"}
    /\ Malformed \cap ShortRows(portfolio) # {} => step \in {"itm", "raised"}
    /\ step = "raised" => Malformed # {} /\ alerts = <<>> /\ holdings = <<>>

\* a long option with a one-part symbol ended the call in the expiration rule
C23_Witness ==
    /\ step = "raised"
    /\ Malformed # {}
    /\ Malformed \cap ShortRows(portfolio) = {}


-----------------------------------------------------------------------------
(* Properties of the authorization and tracing layer *)

\* the tool call is over for trace_tool: execute(func) has returned or raised
Executed ==
    /\ call.entry = "wrapper"
    /\ phase \in {"flush", "done", "raised"}
    /\ outcome # PermissionError

\* C25: a failure inside the tracing layer never breaks a tool call made
\* through trace_tool: with tracing disabled, or with the creation or an
\* update of the span raising, the wrapped function still runs, and the caller
\* receives the result or the exception of the wrapped function (of its last
\* invocation), never an exception of the tracing client.
C25_TracingNeverBreaksTheCall ==
    Executed =>
        /\ runs # <<>>
        /\ outcome = Ended(runs[Len(runs)], Len(runs))
        /\ outcome # TraceError

\* the tracing client raised at the creation of the span and the caller got
\* the function's result all the same
C25_Witness ==
    /\ Executed
    /\ call.enabled
    /\ "start" \in call.faults
    /\ phase = "done"
    /\ outcome = Result(1)

\* C28: one call through trace_tool(...)(func) invokes func exactly once:
\* with tracing disabled, with tracing enabled and func returning, with
\* tracing enabled and func raising, and with the span update failing after
\* func has returned.
C28_FuncInvokedExactlyOnce == Executed => Len(runs) = 1

\* the tool call passed the authorization of on_call_tool, the handler has
\* run, and on_call_tool has returned or raised
Handled ==
    /\ call.entry = "middleware"
    /\ phase \in {"done", "raised"}
    /\ runs # <<>>

\* C26: AuthAndTracingMiddleware flushes traces after each tool call: once
\* the handler of a call that passed on_call_tool's authorization has
\* finished, flush_traces is invoked, whether the handler returned or raised.
C26_FlushAfterEveryToolCall == Handled => flushed = 1

\* the token carries no email the configuration admits: there is no token,
\* it has no claims, it has no email, or its email (in lower case) is not in
\* a non-empty allowlist
Unauthorized(c) ==
    \/ ~c.token.present
    \/ ~c.token.claims
    \/ c.token.email = <<>>
    \/ c.allowed # {} /\ Lower(c.token.email) \notin c.allowed

\* C27: authorization precedes execution: in on_call_tool with
\* require_auth=True and in the tool wrappers of the Modal app, a request
\* with no token, no email claim, or an email outside a non-empty allowlist
\* raises PermissionError before any span is started and before the tool
\* function is invoked; nothing is flushed either.
C27_AuthorizationPrecedesExecution ==
    call.entry \in {"wrapper", "middleware"} /\ call.require_auth /\ Unauthorized(call) =>
        /\ runs = <<>>
        /\ span = "none"
        /\ flushed = 0
        /\ user_email = Nil
        /\ phase \in {"auth", "raised"}
        /\ phase = "raised" => outcome = PermissionError

\* an email outside the allowlist was refused, tracing being enabled
C27_Witness ==
    /\ phase = "raised"
    /\ outcome = PermissionError
    /\ call.token.email = Mallory
    /\ call.allowed = {Alice}
    /\ call.enabled

====
